---- MODULE Spec2Model ----
(***************************************************************************)
(* FlashThought: the idea/folder collection store of App.tsx, the detail   *)
(* modal of IdeaModal.tsx and the views derived from the store.            *)
(*                                                                         *)
(* Text is modelled as a sequence of one-character strings, so that trim,  *)
(* toLowerCase and includes are computed as the code computes them.        *)
(* Time is the value Date.now() returns; ids are the values                *)
(* crypto.randomUUID() returns, drawn in order from a pool.                *)
(*                                                                         *)
(* The mount sequence (load effect, save effects, render of the loaded     *)
(* state) is modelled step by step. A user event is one step: the handler, *)
(* the commit of its batched state updates and the effects of that commit, *)
(* which React runs before it handles the next event. The modal is an      *)
(* overlay without focus trap, so the controls of App stay operable while  *)
(* it is shown. The text fields of the forms are inputs of the handlers    *)
(* that read them. The attachment drafts and the file reads that fill them *)
(* are state; Spec reads no file, SpecDrafts does. The suggestion adapter  *)
(* has no caller in the application and runs in SpecAdapter.               *)
(***************************************************************************)
EXTENDS Integers, Sequences, FiniteSets, TLC

VARIABLES
    ideas,            \* App.tsx:7    useState<Idea[]>([])
    folders,          \* App.tsx:8    useState<Folder[]>([])
    activeFolderId,   \* App.tsx:9    useState<string>('all')
    searchQuery,      \* App.tsx:10   useState('')
    selectedIdea,     \* App.tsx:12   useState<Idea | null>(null)
    isModalOpen,      \* App.tsx:13   useState(false)
    isEditing,        \* IdeaModal.tsx:15
    editTitle,        \* IdeaModal.tsx:16
    editContent,      \* IdeaModal.tsx:17
    storedIdeas,      \* localStorage['flashthought_ideas']
    storedFolders,    \* localStorage['flashthought_folders']
    queued,           \* state updates queued by the mount effect, not yet rendered
    pending,          \* effects and renders still to run, in React's order
    crashed,          \* a render threw: the tree is unmounted
    now,              \* the clock read by Date.now()
    nextId,           \* how many ids crypto.randomUUID() has handed out
    bootConsistent,   \* the collections rendered after loading had no dangling folderId
    ai,               \* part_000: the call of generateIdeaSuggestions in progress
    drafts            \* attachment drafts of App, IdeaModal and UpdateTimeline, and
                      \* the file reads in flight

vars == <<ideas, folders, activeFolderId, searchQuery, selectedIdea, isModalOpen,
          isEditing, editTitle, editContent, storedIdeas, storedFolders, queued,
          pending, crashed, now, nextId, bootConsistent, ai, drafts>>

(***************************************************************************)
(* Bounds of the model.                                                    *)
(***************************************************************************)
MaxId == 1      \* ids handed out in one session
MaxTime == 1    \* the clock stops ticking here
TicksPerDay == 2    \* clock readings in one calendar day
MaxCalls == 2    \* calls of generateIdeaSuggestions in one session
MaxFiles == 2    \* files read in one session

(***************************************************************************)
(* Text.                                                                   *)
(***************************************************************************)
UpperChars == <<"A", "B", "D", "F", "U", "X">>
LowerChars == <<"a", "b", "d", "f", "u", "x">>

\* String.prototype.toLowerCase, one character
ToLowerChar(c) ==
    IF \E k \in 1..Len(UpperChars) : UpperChars[k] = c
    THEN LowerChars[CHOOSE k \in 1..Len(UpperChars) : UpperChars[k] = c]
    ELSE c

\* String.prototype.toLowerCase
ToLower(s) == [k \in 1..Len(s) |-> ToLowerChar(s[k])]

\* String.prototype.trim: white space removed from both ends
RECURSIVE TrimLeft(_)
TrimLeft(s) == IF s # <<>> /\ Head(s) = " " THEN TrimLeft(Tail(s)) ELSE s

RECURSIVE TrimRight(_)
TrimRight(s) ==
    IF s # <<>> /\ s[Len(s)] = " " THEN TrimRight(SubSeq(s, 1, Len(s) - 1)) ELSE s

Trim(s) == TrimRight(TrimLeft(s))

\* String.prototype.includes: q occurs in s as a contiguous substring
Includes(s, q) ==
    \E k \in 0..(Len(s) - Len(q)) : SubSeq(s, k + 1, k + Len(q)) = q

\* a string is truthy when it is not empty
Truthy(s) == s # <<>>

Untitled == <<"U", "n", "t", "i", "t", "l", "e", "d">>

(***************************************************************************)
(* Ids and the optional folder reference.                                  *)
(***************************************************************************)
All == "all"
Uncategorized == "uncategorized"
\* folderId as handlers write it: the key is there, its value is undefined
Undefined == "undefined"
\* folderId after a JSON round trip: the key is not there
Absent == "absent"

UUIDs == <<"u1", "u2", "u3", "u4", "u5", "u6", "u7", "u8">>

\* crypto.randomUUID() that hands out the stored idea's id
RandomUUIDReused(n) == "s1"

\* crypto.randomUUID(): the n-th id of the session
RandomUUID(n) == UUIDs[n + 1]

\* `idea.folderId` read as a condition (App.tsx:130, 213)
HasFolder(idea) == idea.folderId \notin {Undefined, Absent}

IdsOf(seq) == {seq[k].id : k \in 1..Len(seq)}

\* the id array of a collection, in stored order
IdSeq(seq) == [k \in 1..Len(seq) |-> seq[k].id]

(***************************************************************************)
(* Persistence: JSON.stringify / JSON.parse of the two collections.        *)
(* A stored value is [tag, items]: "absent" (getItem returns null),        *)
(* "invalid" (text JSON.parse rejects), "nonArray" (JSON that is not an    *)
(* array of records, such as null or {}), or "array".                      *)
(***************************************************************************)
NoItem == [tag |-> "absent", items |-> <<>>]
InvalidJSON == [tag |-> "invalid", items |-> <<>>]
NonArrayJSON == [tag |-> "nonArray", items |-> <<>>]

\* a serialisation that writes an undefined value as null
StringifyIdeaNull(idea) ==
    [idea EXCEPT !.folderId = IF @ = Undefined THEN "null" ELSE @]

\* JSON.stringify of one idea: a key whose value is undefined is left out
StringifyIdea(idea) ==
    [idea EXCEPT !.folderId = IF @ = Undefined THEN Absent ELSE @]

\* JSON.stringify(ideas)
StringifyIdeas(seq) ==
    [tag |-> "array", items |-> [k \in 1..Len(seq) |-> StringifyIdea(seq[k])]]

\* JSON.stringify(folders)
StringifyFolders(seq) == [tag |-> "array", items |-> seq]

\* `if (saved) { try { set(JSON.parse(saved)) } catch {} }`: the state update the
\* mount effect queues for one key, "none" when it queues nothing
LoadedValue(stored) ==
    IF stored.tag \in {"absent", "invalid"}
    THEN [tag |-> "none", items |-> <<>>]
    ELSE stored

(***************************************************************************)
(* What a first visit can find in localStorage.                            *)
(***************************************************************************)
SavedFolder == [id |-> "sf1", name |-> <<"F">>, createdAt |-> 0]

SavedIdea ==
    [id |-> "s1", title |-> <<"A", "b">>, content |-> <<"x">>, tags |-> << <<"D">> >>,
     updates |-> <<>>, status |-> "active", createdAt |-> 0, lastModified |-> 0,
     attachments |-> <<>>, folderId |-> "sf1"]

StoredIdeasChoices ==
    {NoItem, InvalidJSON, NonArrayJSON, [tag |-> "array", items |-> <<SavedIdea>>]}

StoredFoldersChoices ==
    {NoItem, InvalidJSON, NonArrayJSON, [tag |-> "array", items |-> <<SavedFolder>>]}

(***************************************************************************)
(* The filtered view (App.tsx filteredIdeas).                              *)
(***************************************************************************)
\* the folder filter that takes `uncategorized` for the id of a folder
FolderPassPlainId(idea, active) ==
    IF active # All THEN idea.folderId = active ELSE TRUE

\* the folder filter that treats `all` as `uncategorized`
FolderPassUnfiledOnly(idea, active) ==
    IF active \in {All, Uncategorized} THEN ~HasFolder(idea) ELSE idea.folderId = active

\* the folder part of the filter callback
FolderPass(idea, active) ==
    IF active # All
    THEN IF active = Uncategorized
         THEN ~HasFolder(idea)
         ELSE idea.folderId = active
    ELSE TRUE

\* the search test that looks at title and content only
SearchPassNoTags(idea, search) ==
    IF Truthy(Trim(search))
    THEN \/ Includes(ToLower(idea.title), ToLower(search))
         \/ Includes(ToLower(idea.content), ToLower(search))
    ELSE TRUE

\* the search part of the filter callback
SearchPass(idea, search) ==
    IF Truthy(Trim(search))
    THEN LET query == ToLower(search)
             matchTitle == Includes(ToLower(idea.title), query)
             matchContent == Includes(ToLower(idea.content), query)
             matchTag == \E k \in 1..Len(idea.tags) :
                             Includes(ToLower(idea.tags[k]), query)
         IN  matchTitle \/ matchContent \/ matchTag
    ELSE TRUE

FilterPass(idea, active, search) ==
    FolderPass(idea, active) /\ SearchPass(idea, search)

FilteredIdeas(is, active, search) ==
    LET Test(idea) == FilterPass(idea, active, search)
    IN  SelectSeq(is, Test)

filteredIdeas == FilteredIdeas(ideas, activeFolderId, searchQuery)

\* the count the sidebar shows for Uncategorized (App.tsx:213)
UncategorizedCount(is) ==
    LET Test(i) == ~HasFolder(i) IN Len(SelectSeq(is, Test))

\* no idea references a folder that is not in the folder collection
NoDangling(is, fs) ==
    \A k \in 1..Len(is) : HasFolder(is[k]) => is[k].folderId \in IdsOf(fs)

(***************************************************************************)
(* The AI suggestion adapter (part_000 generateIdeaSuggestions).           *)
(* A JSON value is [type, keys, tags, nextSteps]: null, or an object with  *)
(* the keys it has. A response text is [tag, value]: undefined, the empty  *)
(* string, text JSON.parse rejects, or JSON text with the value it parses  *)
(* to.                                                                     *)
(***************************************************************************)
JsonNull == [type |-> "null", keys |-> {}, tags |-> <<>>, nextSteps |-> <<>>]

JsonEmptyObject == [type |-> "object", keys |-> {}, tags |-> <<>>, nextSteps |-> <<>>]

\* { tags: [], nextSteps: [] }
EmptySuggestion ==
    [type |-> "object", keys |-> {"tags", "nextSteps"}, tags |-> <<>>,
     nextSteps |-> <<>>]

\* a response of the shape of suggestionSchema
SomeSuggestion ==
    [type |-> "object", keys |-> {"tags", "nextSteps"}, tags |-> << <<"D">> >>,
     nextSteps |-> << <<"x">> >>]

\* what ai.models.generateContent settles with: it rejects, or it resolves with a
\* response whose text is one of these
Responses ==
    {[ok |-> FALSE, text |-> [tag |-> "undefined", value |-> JsonNull]],
     [ok |-> TRUE, text |-> [tag |-> "undefined", value |-> JsonNull]],
     [ok |-> TRUE, text |-> [tag |-> "empty", value |-> JsonNull]],
     [ok |-> TRUE, text |-> [tag |-> "invalid", value |-> JsonNull]],
     [ok |-> TRUE, text |-> [tag |-> "json", value |-> JsonNull]],
     [ok |-> TRUE, text |-> [tag |-> "json", value |-> JsonEmptyObject]],
     [ok |-> TRUE, text |-> [tag |-> "json", value |-> EmptySuggestion]],
     [ok |-> TRUE, text |-> [tag |-> "json", value |-> SomeSuggestion]]}

NoResponse == [ok |-> FALSE, text |-> [tag |-> "none", value |-> JsonNull]]

\* process.env.API_KEY: not set, or a key
ApiKeys == {<<>>, <<"k">>}

\* the prompt template with the idea's title and description in it (part_000:32-39)
Prompt(title, content) ==
    <<"Idea Title: ">> \o title \o <<"Idea Description: ">> \o content

\* no call in progress; `calls` counts the calls made
IdleCall(apiKey, calls) ==
    [phase |-> "idle", apiKey |-> apiKey, calls |-> calls, prompt |-> <<>>,
     response |-> NoResponse, result |-> JsonNull]

NoCall == IdleCall(<<>>, 0)

\* part_000:41-59: what the promise resolves with once generateContent has settled
Settled(response) ==
    IF ~response.ok THEN EmptySuggestion                          \* catch
    ELSE IF response.text.tag \in {"undefined", "empty"}
    THEN EmptySuggestion                                          \* if (!text)
    ELSE IF response.text.tag = "invalid" THEN EmptySuggestion    \* JSON.parse throws
    ELSE response.text.value                                      \* JSON.parse(text)

\* part_000:27-40: the call up to the first await
generateIdeaSuggestions(title, content) ==
    /\ ai.phase = "idle"
    /\ ai.calls < MaxCalls
    /\ ai' = IF ~Truthy(ai.apiKey)
             THEN [ai EXCEPT !.phase = "rejected", !.calls = @ + 1]
             ELSE [ai EXCEPT !.phase = "awaiting", !.calls = @ + 1,
                             !.prompt = Prompt(title, content)]

\* part_000:41-59: generateContent settles and the function returns
GenerateContentSettles(response) ==
    /\ ai.phase = "awaiting"
    /\ ai' = [ai EXCEPT !.phase = "returned", !.response = response,
                        !.result = Settled(response)]

\* the caller has taken the outcome; the adapter keeps no state between calls
CallerContinues ==
    /\ ai.phase \in {"returned", "rejected"}
    /\ ai' = IdleCall(ai.apiKey, ai.calls)

(***************************************************************************)
(* Attachment drafts and file reads. `drafts` holds                        *)
(*   newAttachments   App.tsx:19, the new-idea form                        *)
(*   editAttachments  IdeaModal.tsx:18, the idea edit                      *)
(*   timeline         UpdateTimeline.tsx:243-250: attachments of the new   *)
(*                    update, editingId and editAttachments of the update  *)
(*                    edit; the state of the mounted timeline              *)
(*   reads            the calls of processFiles that still await a file,   *)
(*                    in the order they began: the draft they merge into,  *)
(*                    the files, the attachments made so far               *)
(*   fileIds          how many ids processFiles has drawn                  *)
(* and two records kept for the properties only: `stale` of a read says    *)
(* that its draft was submitted or discarded after the read began, and     *)
(* staleIds are the ids of the attachments such reads merged.              *)
(***************************************************************************)
Null == "null"

FileA == [name |-> "a.png", type |-> <<"image", "png">>, data |-> "A"]

FileB == [name |-> "b.txt", type |-> <<"text", "plain">>, data |-> "B"]

\* what one paste or one choice in the file dialog hands over
FileBatches == {<<FileA>>, <<FileB, FileA>>}

\* file.type.startsWith('image/') ? 'image' : file.type.startsWith('video/') ? 'video'
\* : 'file' (App.tsx:59, UpdateTimeline.tsx:292-294)
AttachmentType(file) ==
    IF file.type[1] = "image" THEN "image"
    ELSE IF file.type[1] = "video" THEN "video"
    ELSE "file"

\* crypto.randomUUID() of processFiles; its ids never meet those of ideas,
\* folders and updates
AttachmentIds == <<"f1", "f2", "f3", "f4", "f5", "f6">>

\* the attachment literal of processFiles (App.tsx:57-62, UpdateTimeline.tsx:296-301)
AttachmentOf(file, n) ==
    [id |-> AttachmentIds[n + 1], type |-> AttachmentType(file), url |-> file.data,
     name |-> file.name]

NoTimeline == [attachments |-> <<>>, editingId |-> Null, editAttachments |-> <<>>]

NoDrafts ==
    [newAttachments |-> <<>>, editAttachments |-> <<>>, timeline |-> NoTimeline,
     reads |-> <<>>, fileIds |-> 0, staleIds |-> {}]

\* the drafts the timeline's reads merge into
TimelineTargets == {"update", "updateEdit"}

\* a.filter(a => a.id !== id) (App.tsx:353, IdeaModal.tsx:85, UpdateTimeline.tsx:331, 359)
WithoutAttachment(atts, id) ==
    LET Test(a) == a.id # id IN SelectSeq(atts, Test)

\* the draft `target` was submitted or discarded: its reads in flight are stale
MarkStale(reads, target) ==
    [k \in 1..Len(reads) |->
        IF reads[k].target = target THEN [reads[k] EXCEPT !.stale = TRUE] ELSE reads[k]]

\* The timeline unmounts: its state is gone, and a setState of a read that
\* finishes later has no component to act on.
TimelineUnmounted(d) ==
    LET Test(r) == r.target \notin TimelineTargets
    IN  [d EXCEPT !.timeline = NoTimeline, !.reads = SelectSeq(@, Test)]

\* The drafts after a commit and its effects. `d` is what the handler left,
\* `synced` says that the modal's sync effect ran on `shown` (IdeaModal.tsx:25),
\* `timelineShown` that the timeline was rendered all the way (IdeaModal.tsx:248).
DraftsAfterCommit(d, synced, shown, timelineShown) ==
    LET e == IF synced THEN [d EXCEPT !.editAttachments = shown[1].attachments] ELSE d
    IN  IF timelineShown THEN e ELSE TimelineUnmounted(e)

(***************************************************************************)
(* React's effect order after a commit: a child's effects run before its   *)
(* parent's, and a component's effects run in declaration order.           *)
(***************************************************************************)
\* App that saves the ideas only
EffectsOfIdeasOnly(modalDeps, ideasChanged, foldersChanged) ==
    (IF modalDeps THEN <<"syncModal">> ELSE <<>>)
    \o (IF ideasChanged THEN <<"saveIdeas">> ELSE <<>>)

EffectsOf(modalDeps, ideasChanged, foldersChanged) ==
    (IF modalDeps THEN <<"syncModal">> ELSE <<>>)
    \o (IF ideasChanged THEN <<"saveIdeas">> ELSE <<>>)
    \o (IF foldersChanged THEN <<"saveFolders">> ELSE <<>>)

Init ==
    /\ ideas = <<>>
    /\ folders = <<>>
    /\ activeFolderId = All
    /\ searchQuery = <<>>
    /\ selectedIdea = <<>>
    /\ isModalOpen = FALSE
    /\ isEditing = FALSE
    /\ editTitle = <<>>
    /\ editContent = <<>>
    /\ storedIdeas \in StoredIdeasChoices
    /\ storedFolders \in StoredFoldersChoices
    /\ queued = [ideas |-> LoadedValue(NoItem), folders |-> LoadedValue(NoItem)]
    /\ pending = <<"load", "saveIdeas", "saveFolders", "render">>
    /\ crashed = FALSE
    /\ now = 0
    /\ nextId = 0
    /\ ai = NoCall
    /\ drafts = NoDrafts
    /\ bootConsistent = TRUE

appVars == <<ideas, folders, activeFolderId, searchQuery, selectedIdea, isModalOpen,
             isEditing, editTitle, editContent>>

(***************************************************************************)
(* Effects and the render that follows the mount effects.                  *)
(***************************************************************************)
\* App.tsx:29-38, the mount effect
LoadEffect ==
    /\ pending # <<>> /\ Head(pending) = "load"
    /\ queued' = [ideas |-> LoadedValue(storedIdeas),
                  folders |-> LoadedValue(storedFolders)]
    /\ pending' = Tail(pending)
    /\ UNCHANGED <<appVars, storedIdeas, storedFolders, crashed, now, nextId,
                   bootConsistent, ai, drafts>>

\* App.tsx:40-42
SaveIdeasEffect ==
    /\ pending # <<>> /\ Head(pending) = "saveIdeas"
    /\ storedIdeas' = StringifyIdeas(ideas)
    /\ pending' = Tail(pending)
    /\ UNCHANGED <<appVars, storedFolders, queued, crashed, now, nextId,
                   bootConsistent, ai, drafts>>

\* App.tsx:44-46
SaveFoldersEffect ==
    /\ pending # <<>> /\ Head(pending) = "saveFolders"
    /\ storedFolders' = StringifyFolders(folders)
    /\ pending' = Tail(pending)
    /\ UNCHANGED <<appVars, storedIdeas, queued, crashed, now, nextId,
                   bootConsistent, ai, drafts>>

\* The render of the state the mount effect queued. filteredIdeas calls
\* ideas.filter and the sidebar calls folders.map: a value that is no array of
\* records makes the render throw, and React unmounts the tree.
RenderLoaded ==
    /\ pending # <<>> /\ Head(pending) = "render"
    /\ LET bad == queued.ideas.tag = "nonArray" \/ queued.folders.tag = "nonArray"
           gotIdeas == queued.ideas.tag = "array"
           gotFolders == queued.folders.tag = "array"
       IN  IF bad
           THEN /\ crashed' = TRUE
                /\ pending' = <<>>
                /\ UNCHANGED <<ideas, folders, bootConsistent>>
           ELSE /\ ideas' = IF gotIdeas THEN queued.ideas.items ELSE ideas
                /\ folders' = IF gotFolders THEN queued.folders.items ELSE folders
                /\ pending' = EffectsOf(FALSE, gotIdeas, gotFolders)
                /\ bootConsistent' = NoDangling(ideas', folders')
                /\ crashed' = FALSE
    /\ queued' = [ideas |-> LoadedValue(NoItem), folders |-> LoadedValue(NoItem)]
    /\ UNCHANGED <<activeFolderId, searchQuery, selectedIdea, isModalOpen, isEditing,
                   editTitle, editContent, storedIdeas, storedFolders, now, nextId,
                   ai, drafts>>

\* a user event is handled only when the previous commit's effects have run
Idle == pending = <<>> /\ ~crashed

sysVars == <<queued, pending, crashed, bootConsistent, ai>>

\* The effects of the commit that ends a user event, run in React's order before
\* the next event: a render caused by a click or a key press flushes its effects
\* synchronously. `effects` is what EffectsOf gives for the dependencies that
\* changed, `editing` is isEditing and `d` the drafts as the handler left them.
RunEffects(effects, editing, d) ==
    LET runs(e) == \E k \in 1..Len(effects) : effects[k] = e
        shown == isModalOpen' /\ selectedIdea' # <<>>
    IN  /\ IF runs("syncModal") /\ shown
           THEN /\ editTitle' = selectedIdea'[1].title
                /\ editContent' = selectedIdea'[1].content
                /\ isEditing' = FALSE
           ELSE /\ isEditing' = editing
                /\ UNCHANGED <<editTitle, editContent>>
        /\ drafts' = DraftsAfterCommit(d, runs("syncModal") /\ shown, selectedIdea',
                                       shown /\ ~editing)
        /\ storedIdeas' = IF runs("saveIdeas") THEN StringifyIdeas(ideas')
                           ELSE storedIdeas
        /\ storedFolders' = IF runs("saveFolders") THEN StringifyFolders(folders')
                             ELSE storedFolders

\* Date.now(): a reading is never before the previous one, `from`
DateNow(from) == {t \in {from, from + 1} : t <= MaxTime}

(***************************************************************************)
(* What the user can type.                                                 *)
(***************************************************************************)
NewDrafts ==
    {[title |-> <<>>, content |-> <<" ">>],
     [title |-> <<>>, content |-> <<"x">>]}
FolderNames == {<<" ">>, <<"F">>}
SearchQueries == {<<>>, <<" ">>, <<"a">>, <<"d">>, <<" ", "B">>}
EditTitles == {<<"A">>}
EditContents == {<<"x">>}
UpdateContents == {<<>>, <<"d">>}
UpdateEdits == {<<"x">>}

(***************************************************************************)
(* App.tsx handlers.                                                       *)
(***************************************************************************)
\* the folderId handleCreateIdea derives from the active selector (App.tsx:81)
FolderIdFor(active) ==
    IF active = All THEN Undefined
    ELSE IF active = Uncategorized THEN Undefined
    ELSE active

\* the idea literal of handleCreateIdea (App.tsx:71-82)
NewIdea(id, title, content, created, modified, newAttachments, active) ==
    [id |-> id,
     title |-> IF Truthy(title) THEN title ELSE Untitled,
     content |-> content,
     tags |-> <<>>,
     updates |-> <<>>,
     status |-> "active",
     createdAt |-> created,
     lastModified |-> modified,
     attachments |-> newAttachments,
     folderId |-> FolderIdFor(active)]

\* createIdea that adds at the end
WithIdeaLast(idea, is) == Append(is, idea)

\* [idea, ...ideas] (App.tsx:84)
WithNewIdea(idea, is) == <<idea>> \o is

\* App.tsx:67-89
handleCreateIdea(newTitle, newContent) ==
    /\ Idle
    /\ IF ~Truthy(Trim(newTitle)) /\ ~Truthy(Trim(newContent))
       THEN UNCHANGED vars
       ELSE /\ nextId < MaxId
            /\ \E created \in DateNow(now) : \E modified \in DateNow(created) :
                 /\ ideas' = WithNewIdea(NewIdea(RandomUUID(nextId), newTitle, newContent,
                                                 created, modified,
                                                 drafts.newAttachments, activeFolderId),
                                         ideas)
                 /\ now' = modified
            /\ nextId' = nextId + 1
            /\ UNCHANGED <<folders, activeFolderId, searchQuery, selectedIdea,
                           isModalOpen>>
            /\ RunEffects(EffectsOf(FALSE, TRUE, FALSE), isEditing,
                          [drafts EXCEPT !.newAttachments = <<>>,
                                         !.reads = MarkStale(@, "idea")])
            /\ UNCHANGED sysVars

\* updateIdea that writes its argument over every idea
ReplaceEvery(is, updatedIdea) == [k \in 1..Len(is) |-> updatedIdea]

\* ideas.map(i => i.id === updatedIdea.id ? updatedIdea : i) (App.tsx:92)
ReplaceIdea(is, updatedIdea) ==
    [k \in 1..Len(is) |-> IF is[k].id = updatedIdea.id THEN updatedIdea ELSE is[k]]

\* App.tsx:91-94, called by the modal's handlers. updatedIdea is always a new
\* object, so the modal's sync effect runs after the commit. `d` is the drafts
\* as the calling handler leaves them.
handleUpdateIdea(updatedIdea, editing, d) ==
    /\ ideas' = ReplaceIdea(ideas, updatedIdea)
    /\ selectedIdea' = <<updatedIdea>>
    /\ UNCHANGED <<folders, activeFolderId, searchQuery, isModalOpen>>
    /\ RunEffects(EffectsOf(TRUE, TRUE, FALSE), editing, d)
    /\ UNCHANGED sysVars

\* a removal that hands the remaining ideas back in the opposite order
WithoutIdeaReordered(is, id) ==
    LET Test(i) == i.id # id
        kept == SelectSeq(is, Test)
    IN  [k \in 1..Len(kept) |-> kept[Len(kept) + 1 - k]]

\* ideas.filter(i => i.id !== id) (App.tsx:97)
WithoutIdea(is, id) ==
    LET Test(i) == i.id # id IN SelectSeq(is, Test)

\* [...folders, newFolder] (App.tsx:104-110)
WithNewFolder(fs, id, name, created) ==
    Append(fs, [id |-> id, name |-> Trim(name), createdAt |-> created])

\* App.tsx:100-114
handleCreateFolder(newFolderName) ==
    /\ Idle
    /\ IF ~Truthy(Trim(newFolderName))
       THEN UNCHANGED vars
       ELSE /\ nextId < MaxId
            /\ \E created \in DateNow(now) :
                 /\ folders' = WithNewFolder(folders, RandomUUID(nextId), newFolderName,
                                             created)
                 /\ now' = created
            /\ activeFolderId' = RandomUUID(nextId)
            /\ nextId' = nextId + 1
            /\ UNCHANGED <<ideas, searchQuery, selectedIdea, isModalOpen>>
            /\ RunEffects(EffectsOf(FALSE, FALSE, TRUE), isEditing, drafts)
            /\ UNCHANGED sysVars

\* handleDeleteFolder that drops every folder
WithoutAnyFolder(fs, folderId) == <<>>

\* folders.filter(f => f.id !== folderId) (App.tsx:120)
WithoutFolder(fs, folderId) ==
    LET Test(f) == f.id # folderId IN SelectSeq(fs, Test)

\* handleDeleteFolder with nothing left of the folder in the ideas
UnfiledNothing(is, folderId) == is

\* ideas.map(i => i.folderId === folderId ? {...i, folderId: undefined} : i) (App.tsx:121)
Unfiled(is, folderId) ==
    [k \in 1..Len(is) |->
        IF is[k].folderId = folderId THEN [is[k] EXCEPT !.folderId = Undefined]
        ELSE is[k]]

\* handleDeleteFolder that does not look at what confirm() returns
handleDeleteFolderUnasked(folderId, confirmed) ==
    /\ Idle
    /\ folderId \in IdsOf(folders)
    /\ folders' = WithoutFolder(folders, folderId)
    /\ ideas' = Unfiled(ideas, folderId)
    /\ activeFolderId' = IF activeFolderId = folderId THEN All ELSE activeFolderId
    /\ UNCHANGED <<searchQuery, selectedIdea, isModalOpen, now, nextId>>
    /\ RunEffects(EffectsOf(FALSE, TRUE, TRUE), isEditing, drafts)
    /\ UNCHANGED sysVars

\* handleDeleteFolder that leaves the active selector alone
handleDeleteFolderKeepsActive(folderId, confirmed) ==
    /\ Idle
    /\ IF ~confirmed
       THEN UNCHANGED vars
       ELSE /\ folders' = WithoutFolder(folders, folderId)
            /\ ideas' = Unfiled(ideas, folderId)
            /\ UNCHANGED <<activeFolderId, searchQuery, selectedIdea, isModalOpen, now,
                           nextId>>
            /\ RunEffects(EffectsOf(FALSE, TRUE, TRUE), isEditing, drafts)
            /\ UNCHANGED sysVars

\* App.tsx:116-123; `confirmed` is what confirm() returns
handleDeleteFolder(folderId, confirmed) ==
    /\ Idle
    /\ IF ~confirmed
       THEN UNCHANGED vars
       ELSE /\ folders' = WithoutFolder(folders, folderId)
            /\ ideas' = Unfiled(ideas, folderId)
            /\ activeFolderId' = IF activeFolderId = folderId THEN All ELSE activeFolderId
            /\ UNCHANGED <<searchQuery, selectedIdea, isModalOpen, now, nextId>>
            /\ RunEffects(EffectsOf(FALSE, TRUE, TRUE), isEditing, drafts)
            /\ UNCHANGED sysVars

\* state of App that no effect depends on, and the stores
quiet == <<storedIdeas, storedFolders, now, nextId, drafts>>

\* the same without the drafts
quietStores == <<storedIdeas, storedFolders, now, nextId>>

\* the sidebar's selector buttons (App.tsx:193, 205, 246)
SetActiveFolder(selector) ==
    /\ Idle
    /\ selector \in {All, Uncategorized} \cup IdsOf(folders)
    /\ activeFolderId' = selector
    /\ UNCHANGED <<ideas, folders, searchQuery, selectedIdea, isModalOpen, isEditing,
                   editTitle, editContent>>
    /\ UNCHANGED <<quiet, sysVars>>

\* the search box (App.tsx:294)
SetSearchQuery(q) ==
    /\ Idle
    /\ searchQuery' = q
    /\ UNCHANGED <<ideas, folders, activeFolderId, selectedIdea, isModalOpen, isEditing,
                   editTitle, editContent>>
    /\ UNCHANGED <<quiet, sysVars>>

\* a card of the board is clicked (App.tsx:434-437); the board shows filteredIdeas
OpenIdea(k) ==
    /\ Idle
    /\ k \in 1..Len(filteredIdeas)
    /\ selectedIdea' = <<filteredIdeas[k]>>
    /\ isModalOpen' = TRUE
    /\ UNCHANGED <<ideas, folders, activeFolderId, searchQuery, now, nextId>>
    /\ RunEffects(EffectsOf(selectedIdea' # selectedIdea \/ ~isModalOpen, FALSE, FALSE),
                  isEditing, drafts)
    /\ UNCHANGED sysVars

\* onClose (App.tsx:488)
CloseModal ==
    /\ Idle
    /\ isModalOpen
    /\ isModalOpen' = FALSE
    /\ UNCHANGED <<ideas, folders, activeFolderId, searchQuery, selectedIdea, now,
                   nextId>>
    /\ RunEffects(EffectsOf(TRUE, FALSE, FALSE), isEditing, drafts)
    /\ UNCHANGED sysVars

(***************************************************************************)
(* IdeaModal.tsx: the modal renders when it is open on an idea; `idea` is  *)
(* the selectedIdea it was handed.                                         *)
(***************************************************************************)
ModalShown == Idle /\ isModalOpen /\ selectedIdea # <<>>

\* idea.updates as the timeline receives it (IdeaModal.tsx:251)
ShownUpdates == IF selectedIdea = <<>> THEN <<>> ELSE selectedIdea[1].updates

\* the Edit button (IdeaModal.tsx:143)
StartEditing ==
    /\ ModalShown /\ ~isEditing
    /\ isEditing' = TRUE
    /\ drafts' = TimelineUnmounted(drafts)
    /\ UNCHANGED <<ideas, folders, activeFolderId, searchQuery, selectedIdea,
                   isModalOpen, editTitle, editContent>>
    /\ UNCHANGED <<quietStores, sysVars>>

\* the Cancel button (IdeaModal.tsx:109)
CancelEditing ==
    /\ ModalShown /\ isEditing
    /\ isEditing' = FALSE
    /\ UNCHANGED <<ideas, folders, activeFolderId, searchQuery, selectedIdea,
                   isModalOpen, editTitle, editContent>>
    /\ UNCHANGED <<quiet, sysVars>>

\* the title input (IdeaModal.tsx:184)
SetEditTitle(t) ==
    /\ ModalShown /\ isEditing
    /\ editTitle' = t
    /\ UNCHANGED <<ideas, folders, activeFolderId, searchQuery, selectedIdea,
                   isModalOpen, isEditing, editContent>>
    /\ UNCHANGED <<quiet, sysVars>>

\* the content textarea (IdeaModal.tsx:190)
SetEditContent(c) ==
    /\ ModalShown /\ isEditing
    /\ editContent' = c
    /\ UNCHANGED <<ideas, folders, activeFolderId, searchQuery, selectedIdea,
                   isModalOpen, isEditing, editTitle>>
    /\ UNCHANGED <<quiet, sysVars>>

\* the object handleSave passes on (IdeaModal.tsx:33-39)
SavedEdit(idea, title, content, editAttachments, t) ==
    [idea EXCEPT !.title = title, !.content = content,
                 !.attachments = editAttachments, !.lastModified = t]

\* IdeaModal.tsx:32-41
handleSave ==
    /\ ModalShown /\ isEditing
    /\ \E t \in DateNow(now) :
         /\ handleUpdateIdea(SavedEdit(selectedIdea[1], editTitle, editContent,
                                       drafts.editAttachments, t), FALSE, drafts)
         /\ now' = t
    /\ UNCHANGED nextId

\* handleAddUpdate that puts the new update first
WithUpdateFirst(idea, id, content, type, attachments, stamp, t) ==
    [idea EXCEPT
        !.updates = <<[id |-> id, content |-> content, timestamp |-> stamp,
                       type |-> type, attachments |-> attachments]>> \o @,
        !.lastModified = t]

\* the object handleAddUpdate passes on (IdeaModal.tsx:44-55)
WithAddedUpdate(idea, id, content, type, attachments, stamp, t) ==
    [idea EXCEPT
        !.updates = Append(@, [id |-> id, content |-> content, timestamp |-> stamp,
                               type |-> type, attachments |-> attachments]),
        !.lastModified = t]

\* UpdateTimeline.tsx:253-259 handleSubmit, then IdeaModal.tsx:43-56
handleAddUpdate(content) ==
    /\ ModalShown /\ ~isEditing
    /\ IF ~Truthy(Trim(content)) /\ Len(drafts.timeline.attachments) = 0
       THEN UNCHANGED vars
       ELSE /\ nextId < MaxId
            /\ \E stamp \in DateNow(now) : \E t \in DateNow(stamp) :
                 /\ handleUpdateIdea(WithAddedUpdate(selectedIdea[1], RandomUUID(nextId),
                                                     content, "update",
                                                     drafts.timeline.attachments, stamp, t),
                                     isEditing,
                                     [drafts EXCEPT !.timeline.attachments = <<>>,
                                                    !.reads = MarkStale(@, "update")])
                 /\ now' = t
            /\ nextId' = nextId + 1

\* the object handleEditUpdate passes on (IdeaModal.tsx:59-64)
WithEditedUpdate(idea, updatedUpdate, t) ==
    [idea EXCEPT
        !.updates = [k \in 1..Len(@) |->
                        IF @[k].id = updatedUpdate.id THEN updatedUpdate ELSE @[k]],
        !.lastModified = t]

\* the object saveEditing passes on (UpdateTimeline.tsx:274-278)
EditedUpdate(originalUpdate, content, editAttachments) ==
    [originalUpdate EXCEPT !.content = content, !.attachments = editAttachments]

\* UpdateTimeline.tsx:267-271 cancelEditing
EditingCancelled(d) ==
    [d EXCEPT !.timeline.editingId = Null, !.timeline.editAttachments = <<>>,
              !.reads = MarkStale(@, "updateEdit")]

\* The Edit button of an update, typing, and Save in one step:
\* UpdateTimeline.tsx:261-265 startEditing, 273-280 saveEditing, then
\* IdeaModal.tsx:58-65
handleEditUpdate(k, content) ==
    /\ ModalShown /\ ~isEditing
    /\ k \in 1..Len(ShownUpdates)
    /\ ShownUpdates[k].id # drafts.timeline.editingId
    /\ \E t \in DateNow(now) :
         /\ handleUpdateIdea(WithEditedUpdate(selectedIdea[1],
                                 EditedUpdate(ShownUpdates[k], content,
                                              ShownUpdates[k].attachments), t),
                             isEditing, EditingCancelled(drafts))
         /\ now' = t
    /\ UNCHANGED nextId

\* handleDeleteUpdate that keeps every update
WithEveryUpdate(idea, updateId, t) == [idea EXCEPT !.lastModified = t]

\* the object handleDeleteUpdate passes on (IdeaModal.tsx:69-74)
WithoutUpdate(idea, updateId, t) ==
    LET Test(u) == u.id # updateId
    IN  [idea EXCEPT !.updates = SelectSeq(@, Test), !.lastModified = t]

\* IdeaModal.tsx:67-75; `confirmed` is what confirm() returns
handleDeleteUpdate(k, confirmed) ==
    /\ ModalShown /\ ~isEditing
    /\ k \in 1..Len(ShownUpdates)
    /\ ShownUpdates[k].id # drafts.timeline.editingId
    /\ IF ~confirmed
       THEN UNCHANGED vars
       ELSE /\ \E t \in DateNow(now) :
                 /\ handleUpdateIdea(WithoutUpdate(selectedIdea[1], ShownUpdates[k].id, t),
                                     isEditing, drafts)
                 /\ now' = t
            /\ UNCHANGED nextId

\* the option the folder <select> shows (IdeaModal.tsx:126-133)
ShownOption(idea) ==
    IF HasFolder(idea) /\ idea.folderId \in IdsOf(folders) THEN idea.folderId ELSE ""

\* the object handleFolderChange passes on (IdeaModal.tsx:78-81)
Moved(idea, value) ==
    [idea EXCEPT !.folderId = IF value # "" THEN value ELSE Undefined]

\* IdeaModal.tsx:77-82; `value` is the option chosen
handleFolderChange(value) ==
    /\ ModalShown /\ ~isEditing
    /\ value \in {""} \cup IdsOf(folders)
    /\ value # ShownOption(selectedIdea[1])
    /\ handleUpdateIdea(Moved(selectedIdea[1], value), isEditing, drafts)
    /\ UNCHANGED <<now, nextId>>

\* the Delete button (IdeaModal.tsx:150-156), then App.tsx:96-98 and onClose
handleDeleteIdea(confirmed) ==
    /\ ModalShown /\ ~isEditing
    /\ IF ~confirmed
       THEN UNCHANGED vars
       ELSE /\ ideas' = WithoutIdea(ideas, selectedIdea[1].id)
            /\ isModalOpen' = FALSE
            /\ UNCHANGED <<folders, activeFolderId, searchQuery, selectedIdea, now,
                           nextId>>
            /\ RunEffects(EffectsOf(TRUE, TRUE, FALSE), isEditing, drafts)
            /\ UNCHANGED sysVars

\* The selectors clicked while the store is exercised. The handlers of the store
\* treat `uncategorized` as they treat `all` (App.tsx:81, 122); the views that
\* tell them apart are exercised in SpecView.
StoreSelectors == {All} \cup IdsOf(folders)

Next ==
    \/ LoadEffect
    \/ SaveIdeasEffect
    \/ SaveFoldersEffect
    \/ RenderLoaded
    \/ \E d \in NewDrafts : handleCreateIdea(d.title, d.content)
    \/ \E n \in FolderNames : handleCreateFolder(n)
    \/ \E f \in IdsOf(folders), ok \in BOOLEAN : handleDeleteFolder(f, ok)
    \/ \E sel \in StoreSelectors : SetActiveFolder(sel)
    \/ \E k \in 1..Len(ideas) : OpenIdea(k)
    \/ CloseModal
    \/ StartEditing
    \/ CancelEditing
    \/ \E t \in EditTitles : SetEditTitle(t)
    \/ \E c \in EditContents : SetEditContent(c)
    \/ handleSave
    \/ \E c \in UpdateContents : handleAddUpdate(c)
    \/ \E k \in 1..Len(ShownUpdates), c \in UpdateEdits : handleEditUpdate(k, c)
    \/ \E k \in 1..Len(ShownUpdates), ok \in BOOLEAN : handleDeleteUpdate(k, ok)
    \/ \E v \in {""} \cup IdsOf(folders) : handleFolderChange(v)
    \/ \E ok \in BOOLEAN : handleDeleteIdea(ok)

Spec == Init /\ [][Next]_vars

(***************************************************************************)
(* Dates and the grouped views (App.tsx groupedIdeas, UpdateTimeline.tsx   *)
(* groupedUpdates). A clock reading t falls on day t \div TicksPerDay,     *)
(* counted from 2023-09-01 in local time.                                  *)
(***************************************************************************)
\* the calendar from 2023-09 on: year, month (getMonth() + 1), days of the month
Months ==
    <<[year |-> 2023, month |-> 9, days |-> 30],
      [year |-> 2023, month |-> 10, days |-> 31],
      [year |-> 2023, month |-> 11, days |-> 30],
      [year |-> 2023, month |-> 12, days |-> 31],
      [year |-> 2024, month |-> 1, days |-> 31],
      [year |-> 2024, month |-> 2, days |-> 29],
      [year |-> 2024, month |-> 3, days |-> 31]>>

RECURSIVE DateFrom(_, _)
DateFrom(day, m) ==
    IF day < Months[m].days \/ m = Len(Months)
    THEN [year |-> Months[m].year, month |-> Months[m].month, date |-> day + 1]
    ELSE DateFrom(day - Months[m].days, m + 1)

\* new Date(t): getFullYear(), getMonth() + 1 and getDate() of a clock reading
NewDate(t) == DateFrom(t \div TicksPerDay, 1)

\* the characters of keys, in the order of their code units
CharCodes == <<"-", "0", "1", "2", "3", "4", "5", "6", "7", "8", "9">>

CharCode(c) == CHOOSE k \in 1..Len(CharCodes) : CharCodes[k] = c

\* String(n) of a natural number
RECURSIVE NumberToString(_)
NumberToString(n) ==
    IF n < 10 THEN <<CharCodes[n + 2]>>
    ELSE NumberToString(n \div 10) \o <<CharCodes[(n % 10) + 2]>>

\* padStart that pads nothing
PadStartNone(str) == str

\* padStart(2, '0')
PadStart(str) == IF Len(str) < 2 THEN <<"0">> \o str ELSE str

\* the bucket key of groupedIdeas (App.tsx:151)
MonthKey(t) ==
    NumberToString(NewDate(t).year) \o <<"-">> \o PadStart(NumberToString(NewDate(t).month))

\* the order Array.prototype.sort() puts strings in: by code units, a proper
\* prefix first
StringLess(a, b) ==
    \E k \in 1..(Len(b)) :
        /\ k <= Len(a) + 1
        /\ \A j \in 1..(k - 1) : a[j] = b[j]
        /\ k = Len(a) + 1 \/ CharCode(a[k]) < CharCode(b[k])

\* Array.prototype.sort with a comparator, a stable sort: Before(a, b) when the
\* comparator puts a strictly before b; before[i][j] is Before(seq[i], seq[j])
StableSort(seq, before) ==
    LET Rank(i) ==
            Cardinality({j \in 1..Len(seq) :
                            \/ before[j][i]
                            \/ ~before[i][j] /\ j < i}) + 1
    IN  [p \in 1..Len(seq) |-> seq[CHOOSE i \in 1..Len(seq) : Rank(i) = p]]

\* [...seq].reverse()
Reverse(seq) == [k \in 1..Len(seq) |-> seq[Len(seq) + 1 - k]]

\* Object.keys(groups): the keys in the order they were first added; keys[i] is
\* the key of the i-th item
GroupKeys(keys) ==
    LET firsts == {i \in 1..Len(keys) : \A j \in 1..(i - 1) : keys[j] # keys[i]}
        nth(p) == CHOOSE i \in firsts : Cardinality({j \in firsts : j < i}) = p - 1
    IN  [p \in 1..Cardinality(firsts) |-> keys[nth(p)]]

\* App.tsx:146-165
GroupedIdeas(filtered) ==
    LET Key(idea) == MonthKey(idea.createdAt)
        keys == GroupKeys([i \in 1..Len(filtered) |-> Key(filtered[i])])
        sortedKeys ==
            Reverse(StableSort(keys, [i \in 1..Len(keys) |->
                                        [j \in 1..Len(keys) |->
                                            StringLess(keys[i], keys[j])]]))
        ItemsOf(key) == LET Test(idea) == Key(idea) = key IN SelectSeq(filtered, Test)
        Sorted(items) ==
            StableSort(items, [i \in 1..Len(items) |->
                                 [j \in 1..Len(items) |->
                                     items[i].createdAt > items[j].createdAt]])
    IN  [k \in 1..Len(sortedKeys) |->
            [key |-> sortedKeys[k],
             displayDate |-> NewDate(ItemsOf(sortedKeys[k])[1].createdAt),
             items |-> Sorted(ItemsOf(sortedKeys[k]))]]

groupedIdeas == GroupedIdeas(filteredIdeas)

\* the month names of toLocaleDateString('en-US', {month: 'long'})
LongMonths ==
    <<"January", "February", "March", "April", "May", "June", "July", "August",
      "September", "October", "November", "December">>

\* date.toLocaleDateString('en-US', {year: 'numeric', month: 'long', day: 'numeric'})
DateKey(t) ==
    <<LongMonths[NewDate(t).month], " ">> \o NumberToString(NewDate(t).date)
    \o <<",", " ">> \o NumberToString(NewDate(t).year)

\* a comparator that sorts the oldest update first
OlderUpdate(a, b) == a.timestamp < b.timestamp

\* (a, b) => b.timestamp - a.timestamp puts a first when it is the later one
NewerUpdate(a, b) == a.timestamp > b.timestamp

\* the prop `updates` after the view was computed: sort acts on the copy [...updates]
UpdatesAfterGrouping(updates) == updates

\* UpdateTimeline.tsx:363-379 (and 72-88): Object.entries(groups)
GroupedUpdates(updates) ==
    LET sorted ==
            StableSort(updates, [i \in 1..Len(updates) |->
                                   [j \in 1..Len(updates) |->
                                       NewerUpdate(updates[i], updates[j])]])
        Key(u) == DateKey(u.timestamp)
        keys == GroupKeys([i \in 1..Len(sorted) |-> Key(sorted[i])])
    IN  [k \in 1..Len(keys) |->
            [key |-> keys[k],
             items |-> LET Test(u) == Key(u) = keys[k] IN SelectSeq(sorted, Test)]]

(***************************************************************************)
(* The filtered view on its own: the collections are whatever a session    *)
(* found in localStorage, the user picks selectors and types queries.      *)
(***************************************************************************)
\* ideas a stored collection can hold: filed, unfiled, filed in a folder that is
\* gone; created on 2023-09-01, 2023-10-02, twice on 2024-01-05 and on 2024-02-10
ViewIdeas ==
    {SavedIdea,
     [SavedIdea EXCEPT !.id = "s2", !.title = <<"d">>, !.content = <<>>,
                       !.tags = <<>>, !.folderId = Absent,
                       !.createdAt = 126 * TicksPerDay + 1,
                       !.lastModified = 126 * TicksPerDay + 1],
     [SavedIdea EXCEPT !.id = "s3", !.title = <<"U">>, !.content = <<"a", " ", "b">>,
                       !.tags = <<>>, !.folderId = "gone",
                       !.createdAt = 162 * TicksPerDay,
                       !.lastModified = 162 * TicksPerDay],
     [SavedIdea EXCEPT !.id = "s4", !.title = <<"x">>, !.content = <<>>,
                       !.tags = << <<"F">> >>,
                       !.createdAt = 126 * TicksPerDay,
                       !.lastModified = 126 * TicksPerDay],
     [SavedIdea EXCEPT !.id = "s5", !.title = <<"B">>, !.content = <<>>,
                       !.tags = <<>>, !.folderId = Absent,
                       !.createdAt = 31 * TicksPerDay,
                       !.lastModified = 31 * TicksPerDay]}

\* the collections of distinct ideas of ViewIdeas, in any order
ViewCollections ==
    {c \in UNION {[1..n -> ViewIdeas] : n \in 0..3} :
        \A j \in 1..Len(c), k \in 1..Len(c) : j # k => c[j].id # c[k].id}

InitView ==
    /\ ideas \in ViewCollections
    /\ folders \in {<<>>, <<SavedFolder>>}
    /\ activeFolderId = All
    /\ searchQuery = <<>>
    /\ selectedIdea = <<>>
    /\ isModalOpen = FALSE
    /\ isEditing = FALSE
    /\ editTitle = <<>>
    /\ editContent = <<>>
    /\ storedIdeas = StringifyIdeas(ideas)
    /\ storedFolders = StringifyFolders(folders)
    /\ queued = [ideas |-> LoadedValue(NoItem), folders |-> LoadedValue(NoItem)]
    /\ pending = <<>>
    /\ crashed = FALSE
    /\ now = 0
    /\ nextId = 0
    /\ ai = NoCall
    /\ drafts = NoDrafts
    /\ bootConsistent = NoDangling(ideas, folders)

NextView ==
    \/ \E sel \in {All, Uncategorized} \cup IdsOf(folders) : SetActiveFolder(sel)
    \/ \E q \in SearchQueries : SetSearchQuery(q)

SpecView == InitView /\ [][NextView]_vars

(***************************************************************************)
(* The timeline on its own: the stored idea has updates of several days,   *)
(* in whatever order storage holds them; the user opens and closes the     *)
(* modal and switches it between reading and editing.                      *)
(***************************************************************************)
\* updates of 2023-09-01, of 2024-01-05 (two, at different times) and of 2024-02-10
TimelineUpdates ==
    {[id |-> "a1", content |-> <<"d">>, timestamp |-> 0, type |-> "update",
      attachments |-> <<>>],
     [id |-> "a2", content |-> <<"x">>, timestamp |-> 126 * TicksPerDay,
      type |-> "update", attachments |-> <<>>],
     [id |-> "a3", content |-> <<"d">>, timestamp |-> 126 * TicksPerDay + 1,
      type |-> "update", attachments |-> <<>>],
     [id |-> "a4", content |-> <<"x">>, timestamp |-> 162 * TicksPerDay,
      type |-> "update", attachments |-> <<>>]}

\* the sequences of distinct updates of TimelineUpdates
TimelineCollections ==
    {c \in UNION {[1..n -> TimelineUpdates] : n \in 0..3} :
        \A j \in 1..Len(c), k \in 1..Len(c) : j # k => c[j].id # c[k].id}

InitTimeline ==
    /\ \E c \in TimelineCollections :
          ideas = <<[SavedIdea EXCEPT !.updates = c,
                                      !.lastModified = 162 * TicksPerDay]>>
    /\ folders = <<SavedFolder>>
    /\ activeFolderId = All
    /\ searchQuery = <<>>
    /\ selectedIdea = <<>>
    /\ isModalOpen = FALSE
    /\ isEditing = FALSE
    /\ editTitle = <<>>
    /\ editContent = <<>>
    /\ storedIdeas = StringifyIdeas(ideas)
    /\ storedFolders = StringifyFolders(folders)
    /\ queued = [ideas |-> LoadedValue(NoItem), folders |-> LoadedValue(NoItem)]
    /\ pending = <<>>
    /\ crashed = FALSE
    /\ now = 162 * TicksPerDay
    /\ nextId = 0
    /\ ai = NoCall
    /\ drafts = NoDrafts
    /\ bootConsistent = TRUE

NextTimeline ==
    \/ \E k \in 1..Len(ideas) : OpenIdea(k)
    \/ CloseModal
    \/ StartEditing
    \/ CancelEditing

SpecTimeline == InitTimeline /\ [][NextTimeline]_vars

(***************************************************************************)
(* The adapter on its own: no caller exists in the application.            *)
(***************************************************************************)
AdapterTitles == {<<>>, <<"A">>, <<"A", "b">>}
AdapterContents == {<<>>, <<"x">>}

InitAdapter ==
    /\ ideas = <<>>
    /\ folders = <<>>
    /\ activeFolderId = All
    /\ searchQuery = <<>>
    /\ selectedIdea = <<>>
    /\ isModalOpen = FALSE
    /\ isEditing = FALSE
    /\ editTitle = <<>>
    /\ editContent = <<>>
    /\ storedIdeas = StringifyIdeas(ideas)
    /\ storedFolders = StringifyFolders(folders)
    /\ queued = [ideas |-> LoadedValue(NoItem), folders |-> LoadedValue(NoItem)]
    /\ pending = <<>>
    /\ crashed = FALSE
    /\ now = 0
    /\ nextId = 0
    /\ bootConsistent = TRUE
    /\ \E k \in ApiKeys : ai = IdleCall(k, 0)
    /\ drafts = NoDrafts

appState == <<ideas, folders, activeFolderId, searchQuery, selectedIdea, isModalOpen,
              isEditing, editTitle, editContent, storedIdeas, storedFolders, queued,
              pending, crashed, now, nextId, bootConsistent, drafts>>

NextAdapter ==
    \/ \E t \in AdapterTitles, c \in AdapterContents :
          generateIdeaSuggestions(t, c) /\ UNCHANGED appState
    \/ \E r \in Responses : GenerateContentSettles(r) /\ UNCHANGED appState
    \/ CallerContinues /\ UNCHANGED appState

SpecAdapter == InitAdapter /\ [][NextAdapter]_vars

(***************************************************************************)
(* Attachments: the file reads and the drafts they merge into. A stored    *)
(* idea with attachments is on the board, the clock stands still, and all  *)
(* but one of the session's ids went to ideas that are deleted again.      *)
(***************************************************************************)
\* the timeline is rendered (IdeaModal.tsx:248)
TimelineShown == ModalShown /\ ~isEditing

\* the updates shown as an edit form (UpdateTimeline.tsx:482)
EditForms == {k \in 1..Len(ShownUpdates) : ShownUpdates[k].id = drafts.timeline.editingId}

\* the draft a read merges into is on the screen
TargetShown(target) ==
    IF target = "idea" THEN Idle
    ELSE IF target = "update" THEN TimelineShown
    ELSE TimelineShown /\ EditForms # {}

\* the files the reads in flight have still to read
RECURSIVE FilesAwaited(_)
FilesAwaited(reads) ==
    IF reads = <<>> THEN 0
    ELSE Len(Head(reads).files) - Len(Head(reads).atts) + FilesAwaited(Tail(reads))

\* processFiles up to its first await: App.tsx:49-56 from the paste handler
\* (326-331) or the file input (372); UpdateTimeline.tsx:283-290 from
\* handleFileChange, handlePaste (307-328) or handleEditFileChange,
\* handleEditPaste (335-356)
processFiles(target, files) ==
    /\ TargetShown(target)
    /\ drafts.fileIds + FilesAwaited(drafts.reads) + Len(files) <= MaxFiles
    /\ drafts' = [drafts EXCEPT !.reads = Append(@, [target |-> target, files |-> files,
                                                      atts |-> <<>>, stale |-> FALSE])]
    /\ UNCHANGED <<appVars, quietStores, sysVars>>

\* the merge that puts the batch before the attachments of the draft
MergedFirst(prev, atts) == atts \o prev

\* the merge that sets the draft to the batch, as setState of a value computed
\* without the attachments merged meanwhile would
MergedAlone(prev, atts) == atts

\* [...prev, ...atts]: the merge that ends a batch (App.tsx:64,
\* UpdateTimeline.tsx:310, 326, 338, 354)
Merged(prev, atts) == prev \o atts

\* the drafts after read k has merged `atts`
WithBatch(d, k, atts) ==
    LET r == d.reads[k]
        rest == [j \in 1..(Len(d.reads) - 1) |->
                    IF j < k THEN d.reads[j] ELSE d.reads[j + 1]]
        ids == {atts[j].id : j \in 1..Len(atts)}
        e == [d EXCEPT !.reads = rest,
                       !.staleIds = IF r.stale THEN @ \cup ids ELSE @]
    IN  IF r.target = "idea"
        THEN [e EXCEPT !.newAttachments = Merged(@, atts)]
        ELSE IF r.target = "update"
        THEN [e EXCEPT !.timeline.attachments = Merged(@, atts)]
        ELSE [e EXCEPT !.timeline.editAttachments = Merged(@, atts)]

\* reader.onloadend of the file that read k awaits (App.tsx:52-63,
\* UpdateTimeline.tsx:286-302); after the last file the batch is merged
FileLoaded(k) ==
    /\ Idle
    /\ k \in 1..Len(drafts.reads)
    /\ LET r == drafts.reads[k]
           atts == Append(r.atts, AttachmentOf(r.files[Len(r.atts) + 1], drafts.fileIds))
           d == [drafts EXCEPT !.fileIds = @ + 1, !.reads[k].atts = atts]
       IN  drafts' = IF Len(atts) = Len(r.files) THEN WithBatch(d, k, atts) ELSE d
    /\ UNCHANGED <<appVars, quietStores, sysVars>>

\* the remove button of the new-idea form (App.tsx:353)
removeNewAttachment(id) ==
    /\ Idle
    /\ \E j \in 1..Len(drafts.newAttachments) : drafts.newAttachments[j].id = id
    /\ drafts' = [drafts EXCEPT !.newAttachments = WithoutAttachment(@, id)]
    /\ UNCHANGED <<appVars, quietStores, sysVars>>

\* removeAttachment that hands the idea without the attachment to onUpdateIdea
removeAttachmentAtOnce(id) ==
    /\ ModalShown /\ isEditing
    /\ \E j \in 1..Len(drafts.editAttachments) : drafts.editAttachments[j].id = id
    /\ handleUpdateIdea([selectedIdea[1] EXCEPT
                             !.attachments = WithoutAttachment(drafts.editAttachments, id)],
                        isEditing, drafts)
    /\ UNCHANGED <<now, nextId>>

\* IdeaModal.tsx:84-86
removeAttachment(id) ==
    /\ ModalShown /\ isEditing
    /\ \E j \in 1..Len(drafts.editAttachments) : drafts.editAttachments[j].id = id
    /\ drafts' = [drafts EXCEPT !.editAttachments = WithoutAttachment(@, id)]
    /\ UNCHANGED <<appVars, quietStores, sysVars>>

\* UpdateTimeline.tsx:330-332, the remove button of the new update
removeUpdateAttachment(id) ==
    /\ TimelineShown
    /\ \E j \in 1..Len(drafts.timeline.attachments) :
          drafts.timeline.attachments[j].id = id
    /\ drafts' = [drafts EXCEPT !.timeline.attachments = WithoutAttachment(@, id)]
    /\ UNCHANGED <<appVars, quietStores, sysVars>>

\* UpdateTimeline.tsx:358-360
removeEditAttachment(id) ==
    /\ TimelineShown /\ EditForms # {}
    /\ \E j \in 1..Len(drafts.timeline.editAttachments) :
          drafts.timeline.editAttachments[j].id = id
    /\ drafts' = [drafts EXCEPT !.timeline.editAttachments = WithoutAttachment(@, id)]
    /\ UNCHANGED <<appVars, quietStores, sysVars>>

\* UpdateTimeline.tsx:261-265, the Edit button of update k (561)
startEditing(k) ==
    /\ TimelineShown
    /\ k \in 1..Len(ShownUpdates)
    /\ ShownUpdates[k].id # drafts.timeline.editingId
    /\ drafts' = [drafts EXCEPT !.timeline.editingId = ShownUpdates[k].id,
                                !.timeline.editAttachments = ShownUpdates[k].attachments,
                                !.reads = MarkStale(@, "updateEdit")]
    /\ UNCHANGED <<appVars, quietStores, sysVars>>

\* UpdateTimeline.tsx:267-271, the Cancel button of the edit form (535)
cancelEditing ==
    /\ TimelineShown /\ EditForms # {}
    /\ drafts' = EditingCancelled(drafts)
    /\ UNCHANGED <<appVars, quietStores, sysVars>>

\* UpdateTimeline.tsx:273-280, the Save button of the edit form (541-542), then
\* IdeaModal.tsx:58-65; `content` is editContent as typed
saveEditing(content) ==
    /\ TimelineShown
    /\ ~(~Truthy(Trim(content)) /\ Len(drafts.timeline.editAttachments) = 0)
    /\ \E k \in EditForms : \E t \in DateNow(now) :
         /\ handleUpdateIdea(WithEditedUpdate(selectedIdea[1],
                                 EditedUpdate(ShownUpdates[k], content,
                                              drafts.timeline.editAttachments), t),
                             isEditing, EditingCancelled(drafts))
         /\ now' = t
    /\ UNCHANGED nextId

StoredAttachments ==
    [k \in 1..2 |->
        [id |-> <<"sa1", "sa2">>[k], type |-> "image", url |-> "S", name |-> "s.png"]]

\* an idea as a session with attachments left it in the store
IdeaWithAttachments ==
    [SavedIdea EXCEPT
        !.attachments = <<StoredAttachments[1]>>,
        !.updates = <<[id |-> "a1", content |-> <<"d">>, timestamp |-> 0,
                       type |-> "update", attachments |-> <<StoredAttachments[2]>>],
                      [id |-> "a2", content |-> <<"x">>, timestamp |-> 0,
                       type |-> "update", attachments |-> <<>>]>>]

InitDrafts ==
    /\ ideas = <<IdeaWithAttachments>>
    /\ folders = <<SavedFolder>>
    /\ activeFolderId = All
    /\ searchQuery = <<>>
    /\ selectedIdea = <<>>
    /\ isModalOpen = FALSE
    /\ isEditing = FALSE
    /\ editTitle = <<>>
    /\ editContent = <<>>
    /\ storedIdeas = StringifyIdeas(ideas)
    /\ storedFolders = StringifyFolders(folders)
    /\ queued = [ideas |-> LoadedValue(NoItem), folders |-> LoadedValue(NoItem)]
    /\ pending = <<>>
    /\ crashed = FALSE
    /\ now = MaxTime
    /\ nextId = MaxId - 1
    /\ ai = NoCall
    /\ drafts = NoDrafts
    /\ bootConsistent = TRUE

DraftTargets == {"idea", "update", "updateEdit"}

\* what is typed into the new update and into the edit form of an update
NewUpdateTexts == {<<>>}

EditTexts == {<<"x">>}

NextDrafts ==
    \/ \E target \in DraftTargets, files \in FileBatches : processFiles(target, files)
    \/ \E k \in 1..Len(drafts.reads) : FileLoaded(k)
    \/ \E j \in 1..Len(drafts.newAttachments) :
          removeNewAttachment(drafts.newAttachments[j].id)
    \/ \E j \in 1..Len(drafts.editAttachments) :
          removeAttachment(drafts.editAttachments[j].id)
    \/ \E j \in 1..Len(drafts.timeline.attachments) :
          removeUpdateAttachment(drafts.timeline.attachments[j].id)
    \/ \E j \in 1..Len(drafts.timeline.editAttachments) :
          removeEditAttachment(drafts.timeline.editAttachments[j].id)
    \/ \E k \in 1..Len(ShownUpdates) : startEditing(k)
    \/ cancelEditing
    \/ \E c \in EditTexts : saveEditing(c)
    \/ \E c \in NewUpdateTexts : handleAddUpdate(c)
    \/ handleCreateIdea(<<>>, <<"x">>)
    \/ \E k \in 1..Len(ideas) : OpenIdea(k)
    \/ CloseModal
    \/ StartEditing
    \/ CancelEditing
    \/ handleSave

SpecDrafts == InitDrafts /\ [][NextDrafts]_vars

(***************************************************************************)
(* The by-id operations called with any id, as the props and handlers      *)
(* accept them: onUpdateIdea and onDelete of IdeaModal, onEditUpdate and   *)
(* onDeleteUpdate of UpdateTimeline, handleDeleteFolder of App. The store  *)
(* holds two ideas and a folder; the modal is opened and closed.           *)
(***************************************************************************)
\* App.tsx:91-94 with any idea as its argument
onUpdateIdea(updatedIdea) ==
    /\ Idle
    /\ handleUpdateIdea(updatedIdea, isEditing, drafts)
    /\ UNCHANGED <<now, nextId>>

\* App.tsx:96-98 with any id as its argument
onDelete(id) ==
    /\ Idle
    /\ ideas' = WithoutIdea(ideas, id)
    /\ UNCHANGED <<folders, activeFolderId, searchQuery, selectedIdea, isModalOpen, now,
                   nextId>>
    /\ RunEffects(EffectsOf(FALSE, TRUE, FALSE), isEditing, drafts)
    /\ UNCHANGED sysVars

\* IdeaModal.tsx:58-65 with any update as its argument
onEditUpdate(updatedUpdate) ==
    /\ TimelineShown
    /\ \E t \in DateNow(now) :
         /\ handleUpdateIdea(WithEditedUpdate(selectedIdea[1], updatedUpdate, t),
                             isEditing, drafts)
         /\ now' = t
    /\ UNCHANGED nextId

\* IdeaModal.tsx:67-75 with any id as its argument; `confirmed` is what confirm()
\* returns
onDeleteUpdate(updateId, confirmed) ==
    /\ TimelineShown
    /\ IF ~confirmed
       THEN UNCHANGED vars
       ELSE /\ \E t \in DateNow(now) :
                 /\ handleUpdateIdea(WithoutUpdate(selectedIdea[1], updateId, t),
                                     isEditing, drafts)
                 /\ now' = t
            /\ UNCHANGED nextId

\* a second stored idea, in no folder
LooseIdea ==
    [SavedIdea EXCEPT !.id = "s2", !.title = <<"B">>, !.folderId = Absent,
                      !.updates = <<[id |-> "a3", content |-> <<"x">>, timestamp |-> 0,
                                     type |-> "update", attachments |-> <<>>]>>]

PlainIdea ==
    [SavedIdea EXCEPT !.id = "s3", !.title = <<"d">>, !.folderId = Absent]

InitCalls ==
    /\ ideas = <<LooseIdea, IdeaWithAttachments, PlainIdea>>
    /\ folders = <<SavedFolder>>
    /\ activeFolderId = All
    /\ searchQuery = <<>>
    /\ selectedIdea = <<>>
    /\ isModalOpen = FALSE
    /\ isEditing = FALSE
    /\ editTitle = <<>>
    /\ editContent = <<>>
    /\ storedIdeas = StringifyIdeas(ideas)
    /\ storedFolders = StringifyFolders(folders)
    /\ queued = [ideas |-> LoadedValue(NoItem), folders |-> LoadedValue(NoItem)]
    /\ pending = <<>>
    /\ crashed = FALSE
    /\ now = 0
    /\ nextId = 0
    /\ ai = NoCall
    /\ drafts = NoDrafts
    /\ bootConsistent = TRUE

\* the ids handed to the operations: of a stored record, and of none
CallIdeaIds == {"s1", "nobody"}

CallUpdateIds == {"a1", "nobody"}

CallFolderIds == {"sf1", "nobody"}

\* the ideas handed to onUpdateIdea
CallIdeas == {[SavedIdea EXCEPT !.id = i, !.title = <<"U">>] : i \in CallIdeaIds}

\* the updates handed to onEditUpdate
CallUpdates ==
    {[id |-> u, content |-> <<"d">>, timestamp |-> 0, type |-> "update",
      attachments |-> <<>>] : u \in CallUpdateIds}

NextCalls ==
    \/ \E u \in CallIdeas : onUpdateIdea(u)
    \/ \E id \in CallIdeaIds : onDelete(id)
    \/ \E u \in CallUpdates : onEditUpdate(u)
    \/ \E id \in CallUpdateIds, ok \in BOOLEAN : onDeleteUpdate(id, ok)
    \/ \E f \in CallFolderIds, ok \in BOOLEAN : handleDeleteFolder(f, ok)
    \/ \E k \in 1..Len(ideas) : OpenIdea(k)
    \/ CloseModal

SpecCalls == InitCalls /\ [][NextCalls]_vars

(***************************************************************************)
(* The update operations of the modal on a store whose ideas have updates. *)
(***************************************************************************)
NextUpdates ==
    \/ \E c \in UpdateContents : handleAddUpdate(c)
    \/ \E k \in 1..Len(ShownUpdates), c \in UpdateEdits : handleEditUpdate(k, c)
    \/ \E k \in 1..Len(ShownUpdates), ok \in BOOLEAN : handleDeleteUpdate(k, ok)
    \/ \E k \in 1..Len(ideas) : OpenIdea(k)
    \/ CloseModal

SpecUpdates == InitCalls /\ [][NextUpdates]_vars

(***************************************************************************)
(* Pastes and file choices that overlap: each is one file or two, into the *)
(* new-idea form, the new update or the edit form of an update.            *)
(***************************************************************************)
OverlappingBatches == {<<FileA>>, <<FileB>>, <<FileB, FileA>>}

NextBatches ==
    \/ \E target \in DraftTargets, files \in OverlappingBatches : processFiles(target, files)
    \/ \E k \in 1..Len(drafts.reads) : FileLoaded(k)
    \/ \E k \in 1..Len(ShownUpdates) : startEditing(k)
    \/ cancelEditing
    \/ \E k \in 1..Len(ideas) : OpenIdea(k)
    \/ CloseModal

SpecBatches == InitDrafts /\ [][NextBatches]_vars

(***************************************************************************)
(* The page left and opened again: what was saved is what the next mount   *)
(* finds in localStorage.                                                  *)
(***************************************************************************)
\* App.tsx:7-38: the page is reloaded; App mounts with its initial state and the
\* mount effect reads both keys
Reload ==
    /\ pending = <<>>
    /\ ideas' = <<>>
    /\ folders' = <<>>
    /\ activeFolderId' = All
    /\ searchQuery' = <<>>
    /\ selectedIdea' = <<>>
    /\ isModalOpen' = FALSE
    /\ isEditing' = FALSE
    /\ editTitle' = <<>>
    /\ editContent' = <<>>
    /\ drafts' = NoDrafts
    /\ crashed' = FALSE
    /\ bootConsistent' = TRUE
    /\ queued' = [ideas |-> LoadedValue(storedIdeas),
                  folders |-> LoadedValue(storedFolders)]
    /\ pending' = <<"saveIdeas", "saveFolders", "render">>
    /\ UNCHANGED <<storedIdeas, storedFolders, now, nextId, ai>>

NextReload ==
    \/ SaveIdeasEffect
    \/ SaveFoldersEffect
    \/ RenderLoaded
    \/ Reload
    \/ \E d \in NewDrafts : handleCreateIdea(d.title, d.content)
    \/ \E n \in FolderNames : handleCreateFolder(n)
    \/ \E f \in IdsOf(folders), ok \in BOOLEAN : handleDeleteFolder(f, ok)
    \/ \E k \in 1..Len(ideas) : OpenIdea(k)
    \/ CloseModal
    \/ \E c \in UpdateContents : handleAddUpdate(c)
    \/ \E v \in {""} \cup IdsOf(folders) : handleFolderChange(v)

SpecReload == InitCalls /\ [][NextReload]_vars

(***************************************************************************)
(* The sidebar and the new-idea form from the first mount on, every        *)
(* selector button included.                                               *)
(***************************************************************************)
NextFolders ==
    \/ LoadEffect
    \/ SaveIdeasEffect
    \/ SaveFoldersEffect
    \/ RenderLoaded
    \/ \E sel \in {All, Uncategorized} \cup IdsOf(folders) : SetActiveFolder(sel)
    \/ \E n \in FolderNames : handleCreateFolder(n)
    \/ \E f \in IdsOf(folders), ok \in BOOLEAN : handleDeleteFolder(f, ok)
    \/ \E d \in NewDrafts : handleCreateIdea(d.title, d.content)

SpecFolders == Init /\ [][NextFolders]_vars

(***************************************************************************)
(* Properties.                                                             *)
(***************************************************************************)
\* the idea of a collection with the given id
IdeaById(is, id) == is[CHOOSE k \in 1..Len(is) : is[k].id = id]

\* the records of a collection, as a set
Records(seq) == {seq[k] : k \in 1..Len(seq)}

\* The modal is open on a copy of the saved idea that still names the saved
\* folder, while the collection's idea lost the folder and the folder is gone:
\* only handleDeleteFolder changes the collection's idea and not the modal's copy.
UnfiledBehindModal ==
    /\ bootConsistent /\ Idle
    /\ isModalOpen /\ selectedIdea # <<>>
    /\ selectedIdea[1].id = "s1" /\ selectedIdea[1].folderId = "sf1"
    /\ "s1" \in IdsOf(ideas)
    /\ ~HasFolder(IdeaById(ideas, "s1"))
    /\ "sf1" \notin IdsOf(folders)

\* C1: after a confirmed deleteFolder(f) no idea of the collection has folderId f,
\* and every idea that referenced f has an absent folderId and passes the
\* `uncategorized` filter.
C1_DeleteFolderUnfiles ==
    [][\A f \in IdsOf(folders) :
          handleDeleteFolder(f, TRUE) =>
            /\ \A k \in 1..Len(ideas') : ideas'[k].folderId # f
            /\ Len(ideas') = Len(ideas)
            /\ \A k \in 1..Len(ideas) :
                 ideas[k].folderId = f =>
                   /\ ideas'[k].folderId \in {Undefined, Absent}
                   /\ ideas'[k] \in Records(FilteredIdeas(ideas', Uncategorized, <<>>))]_vars

C1_Witness == UnfiledBehindModal /\ Len(ideas) = 1 /\ folders = <<>>

\* C2: from a reference-consistent store, every idea's folderId is absent or the
\* id of a folder of the folder collection, in every reachable state.
C2_NoDanglingReference == bootConsistent => NoDangling(ideas, folders)

\* C3: deleteFolder(f) keeps the sequence of idea ids, leaves the ideas that did
\* not reference f unchanged, changes nothing but folderId in those that did,
\* and leaves every other folder unchanged and in place.
C3_DeleteFolderFrame ==
    [][\A f \in IdsOf(folders) :
          handleDeleteFolder(f, TRUE) =>
            /\ IdSeq(ideas') = IdSeq(ideas)
            /\ \A k \in 1..Len(ideas) :
                 IF ideas[k].folderId = f
                 THEN [ideas'[k] EXCEPT !.folderId = f] = ideas[k]
                 ELSE ideas'[k] = ideas[k]
            /\ Records(folders') = {g \in Records(folders) : g.id # f}
            /\ Len(folders') = Cardinality(Records(folders'))
            /\ \A j \in 1..Len(folders'), k \in 1..Len(folders') :
                 j < k => \E a \in 1..Len(folders), b \in 1..Len(folders) :
                            a < b /\ folders[a] = folders'[j] /\ folders[b] = folders'[k]]_vars

C3_Witness == UnfiledBehindModal /\ Len(folders) = 1 /\ folders[1].id = "u1"

\* C4: every mutation of an idea or of its updates (a saved edit, an update
\* added, edited or deleted, a move to another folder, the reassignment done by
\* deleteFolder) sets the idea's lastModified to the time of the operation.
C4_LastModifiedRefreshed ==
    [][\A id \in IdsOf(ideas) \cap IdsOf(ideas') :
          IdeaById(ideas', id) # IdeaById(ideas, id) =>
             IdeaById(ideas', id).lastModified = now']_vars

\* C5: when a store mutation is done and the next user event can be handled, the
\* persisted ideas and the persisted folders are the serialized in-memory
\* collections.
C5_DurableCopyInSync ==
    Idle => /\ storedIdeas = StringifyIdeas(ideas)
            /\ storedFolders = StringifyFolders(folders)

C5_Witness ==
    /\ Idle /\ nextId > 0
    /\ folders # <<>> /\ folders[Len(folders)].id = "u1"
    /\ storedFolders.items = folders
    /\ ideas # <<>> /\ storedIdeas.items # <<>>
    /\ storedIdeas.items[1].id = ideas[1].id

\* C6: at startup, separately for the two stored collections, a value that is
\* absent or cannot be read as a collection of records gives an empty collection
\* and no crash, and a value that can be read is loaded, whatever the other is.
C6_LoadTolerance ==
    [][RenderLoaded =>
         /\ ~crashed'
         /\ ideas' = IF queued.ideas.tag = "array" THEN queued.ideas.items ELSE <<>>
         /\ folders' = IF queued.folders.tag = "array" THEN queued.folders.items
                        ELSE <<>>]_vars

\* what updateIdea promises about the collection `after`, for the argument u
Replaced(before, after, u) ==
    /\ IdSeq(after) = IdSeq(before)
    /\ \A k \in 1..Len(before) :
         after[k] = IF before[k].id = u.id THEN u ELSE before[k]
    /\ u.id \notin IdsOf(before) => after = before

\* arguments for updateIdea: ids of the stored idea, of a created one, of none
UpdateArguments ==
    {[SavedIdea EXCEPT !.id = i, !.title = <<"U">>, !.lastModified = now] :
        i \in {"s1", "u1", "nobody"}}

\* the handlers of the modal that call onUpdate
ModalUpdate ==
    \/ handleSave
    \/ \E c \in UpdateContents : handleAddUpdate(c)
    \/ \E k \in 1..Len(ShownUpdates), c \in UpdateEdits : handleEditUpdate(k, c)
    \/ \E k \in 1..Len(ShownUpdates) : handleDeleteUpdate(k, TRUE)
    \/ \E v \in {""} \cup IdsOf(folders) : handleFolderChange(v)

\* C7: updateIdea(idea) puts the given value in the place of the stored idea with
\* its id, keeps the length and the order of the collection and every other
\* idea, and changes nothing when no stored idea has that id.
C7_UpdateIdeaReplaces ==
    /\ [][(ModalShown /\ <<ideas, selectedIdea>>' # <<ideas, selectedIdea>> /\ ModalUpdate)
             => Replaced(ideas, ideas', selectedIdea'[1])]_vars
    /\ [](\A u \in UpdateArguments : Replaced(ideas, ReplaceIdea(ideas, u), u))

C7_Witness ==
    /\ Idle /\ isModalOpen
    /\ Len(ideas) = 2 /\ ideas[1].id = "u1" /\ ideas[2].id = "s1"
    /\ ideas[2].title = <<"A">>
    /\ selectedIdea = <<ideas[2]>>

\* C8: createIdea with a non-blank title or content adds one idea at the front
\* and keeps the ideas there were, in their order; the stored order is always
\* newest-created first.
C8_CreateIdeaPrepends ==
    /\ [][\A d \in NewDrafts :
            ((Truthy(Trim(d.title)) \/ Truthy(Trim(d.content)))
                /\ nextId' = nextId + 1
                /\ handleCreateIdea(d.title, d.content)) =>
               /\ Len(ideas') = Len(ideas) + 1
               /\ Tail(ideas') = ideas
               /\ Head(ideas').id \notin IdsOf(ideas)
               /\ Head(ideas').createdAt >= now]_vars
    /\ [](\A j \in 1..Len(ideas), k \in 1..Len(ideas) :
             j < k => ideas[j].createdAt >= ideas[k].createdAt)

C8_Witness ==
    /\ Idle
    /\ Len(ideas) = 2 /\ ideas[1].id = "u1" /\ ideas[2] = SavedIdea
    /\ ideas[1].createdAt = 1

Matches(idea, q) ==
    \E text \in {idea.title, idea.content} \cup Records(idea.tags) :
        \E from \in 0..Len(text) :
            /\ from + Len(q) <= Len(text)
            /\ \A k \in 1..Len(q) : ToLowerChar(text[from + k]) = ToLowerChar(q[k])

\* a query of white space only counts as no query
Blank(q) == \A k \in 1..Len(q) : q[k] = " "

\* C10: with the selector `all` the view is the whole collection when the query
\* is blank, and otherwise the ideas that match the query, in the collection's
\* order, whatever their folders.
C10_AllFilterAmended ==
    activeFolderId = All =>
        LET Shown(idea) == Blank(searchQuery) \/ Matches(idea, searchQuery)
        IN  filteredIdeas = SelectSeq(ideas, Shown)

C10_Witness ==
    /\ activeFolderId = All
    /\ ~Blank(searchQuery)
    /\ Len(ideas) = 3
    /\ Len(filteredIdeas) = 2
    /\ \E j \in 1..2, k \in 1..2 : HasFolder(filteredIdeas[j]) /\ ~HasFolder(filteredIdeas[k])

\* C10 as the spec states it: with the selector `all` the view is every idea of
\* the collection, whatever the folders and whatever the query.
C10_AllFilterAsStated == activeFolderId = All => filteredIdeas = ideas

\* C11: with the selector `uncategorized` the view is the ideas without a
\* folderId when the query is blank, and otherwise those of them that match the
\* query, in the collection's order; no idea with a folderId is in it.
C11_UncategorizedAmended ==
    activeFolderId = Uncategorized =>
        LET Shown(idea) == /\ idea.folderId \in {Undefined, Absent}
                           /\ Blank(searchQuery) \/ Matches(idea, searchQuery)
        IN  filteredIdeas = SelectSeq(ideas, Shown)

C11_Witness ==
    /\ activeFolderId = Uncategorized
    /\ ~Blank(searchQuery)
    /\ Len(ideas) = 3
    /\ Len(filteredIdeas) = 1
    /\ \E k \in 1..3 : HasFolder(ideas[k]) /\ Matches(ideas[k], searchQuery)

\* C11 as the spec states it: with the selector `uncategorized` the view is
\* exactly the ideas whose folderId is absent.
C11_UncategorizedAsStated ==
    activeFolderId = Uncategorized =>
        LET Unfiled_(idea) == idea.folderId \in {Undefined, Absent}
        IN  filteredIdeas = SelectSeq(ideas, Unfiled_)

\* C12: an idea whose folderId names no folder of the collection is treated as
\* having no folder: the `uncategorized` view and the sidebar's Uncategorized
\* count take it in, together with the ideas without a folderId.
C12_DanglingDegrades ==
    ~crashed =>
        LET Loose(idea) == ~HasFolder(idea) \/ idea.folderId \notin IdsOf(folders)
        IN  /\ FilteredIdeas(ideas, Uncategorized, <<>>) = SelectSeq(ideas, Loose)
            /\ UncategorizedCount(ideas) = Len(SelectSeq(ideas, Loose))

\* C13: with a selector F that names a folder, an idea is in the view if and only
\* if its folderId is F and the query is blank or occurs, letter case ignored,
\* in its title, its content or one of its tags; the view keeps the
\* collection's order.
C13_FolderAndSearch ==
    activeFolderId \in IdsOf(folders) =>
        LET Shown(idea) == /\ idea.folderId = activeFolderId
                           /\ Blank(searchQuery) \/ Matches(idea, searchQuery)
        IN  filteredIdeas = SelectSeq(ideas, Shown)

\* two ideas of the selected folder, and a query found in a tag of one of them only
C13_Witness ==
    /\ activeFolderId = "sf1"
    /\ searchQuery = <<"d">>
    /\ \E j \in 1..Len(ideas), k \in 1..Len(ideas) :
          ideas[j].id = "s1" /\ ideas[k].id = "s4"
    /\ filteredIdeas = <<SavedIdea>>

\* the (year, month) of a clock reading, as one number that grows with time
YearMonth(t) == NewDate(t).year * 12 + NewDate(t).month

\* C14: the month buckets partition the filtered ideas by (year, month) of
\* createdAt: every filtered idea is in exactly one bucket, no bucket is empty,
\* buckets come most recent month first, and the ideas of a bucket most recently
\* created first.
C14_GroupByMonth ==
    LET g == groupedIdeas
    IN  /\ \A idea \in Records(filteredIdeas) :
              Cardinality({b \in 1..Len(g) : idea \in Records(g[b].items)}) = 1
        /\ \A b \in 1..Len(g) :
              /\ g[b].items # <<>>
              /\ Records(g[b].items) \subseteq Records(filteredIdeas)
              /\ Len(g[b].items) = Cardinality(Records(g[b].items))
              /\ \A j \in 1..Len(g[b].items), k \in 1..Len(g[b].items) :
                    /\ YearMonth(g[b].items[j].createdAt)
                          = YearMonth(g[b].items[k].createdAt)
                    /\ j < k => g[b].items[j].createdAt >= g[b].items[k].createdAt
        /\ \A a \in 1..Len(g), b \in 1..Len(g) :
              a < b => YearMonth(g[a].items[1].createdAt)
                          > YearMonth(g[b].items[1].createdAt)

\* February 2024 before January 2024, and in January the later idea first,
\* against the collection's order
C14_Witness ==
    /\ activeFolderId = All /\ searchQuery = <<" ">>
    /\ IdSeq(filteredIdeas) = <<"s4", "s2", "s3">>
    /\ Len(groupedIdeas) = 2
    /\ IdSeq(groupedIdeas[1].items) = <<"s3">>
    /\ IdSeq(groupedIdeas[2].items) = <<"s2", "s4">>
    /\ groupedIdeas[1].key = <<"2", "0", "2", "4", "-", "0", "2">>

\* the calendar day of a clock reading, as one number that grows with time
DayOf(t) == t \div TicksPerDay

FailedResponse(response) ==
    \/ ~response.ok
    \/ response.text.tag # "json"
    \/ response.text.value.type # "object"
    \/ response.text.value.keys # {"tags", "nextSteps"}

\* C16: generateIdeaSuggestions never throws or rejects, and after a missing
\* credential, a failed request or a malformed response it returns
\* {tags: [], nextSteps: []}.
C16_AdapterNeverFails ==
    /\ ai.phase # "rejected"
    /\ ai.phase = "returned" /\ FailedResponse(ai.response) => ai.result = EmptySuggestion

\* the ids of a sequence of attachments
AttachmentIdsOf(atts) == {atts[j].id : j \in 1..Len(atts)}

\* the ids of the attachments the ideas and their updates hold
KeptAttachmentIds(is) ==
    UNION {AttachmentIdsOf(is[i].attachments) : i \in 1..Len(is)}
    \cup UNION {UNION {AttachmentIdsOf(is[i].updates[u].attachments) :
                          u \in 1..Len(is[i].updates)} : i \in 1..Len(is)}

\* the ids of the attachments in the drafts on the screen: the new idea, the new
\* update, and the edit of an update while one is edited
DraftAttachmentIds(d) ==
    AttachmentIdsOf(d.newAttachments) \cup AttachmentIdsOf(d.timeline.attachments)
    \cup (IF d.timeline.editingId # Null THEN AttachmentIdsOf(d.timeline.editAttachments)
          ELSE {})

\* C17: the attachments of a file read whose draft (new idea, new update, update
\* edit) was submitted or discarded while the read was in flight are in no later
\* draft and in no stored idea or update.
C17_StaleReadIgnored ==
    drafts.staleIds \cap (DraftAttachmentIds(drafts) \cup KeptAttachmentIds(ideas)) = {}

\* the attachments of the draft a read merges into
DraftOf(d, target) ==
    IF target = "idea" THEN d.newAttachments
    ELSE IF target = "update" THEN d.timeline.attachments
    ELSE d.timeline.editAttachments

\* read k without its k-th element
ReadsWithout(reads, k) ==
    [j \in 1..(Len(reads) - 1) |-> IF j < k THEN reads[j] ELSE reads[j + 1]]

\* a file of some read has been read in this step, and it was the last file of read k
BatchEnds(k) ==
    /\ k \in 1..Len(drafts.reads)
    /\ drafts'.fileIds = drafts.fileIds + 1
    /\ Len(drafts.reads[k].atts) + 1 = Len(drafts.reads[k].files)
    /\ drafts'.reads = ReadsWithout(drafts.reads, k)

\* the step of read k that ends its batch appends to the draft one attachment per
\* file, in the order of the files
BatchMergedWhole(k) ==
    LET r == drafts.reads[k]
        before == DraftOf(drafts, r.target)
        after == DraftOf(drafts', r.target)
    IN  /\ Len(after) = Len(before) + Len(r.files)
        /\ SubSeq(after, 1, Len(before)) = before
        /\ \A j \in 1..Len(r.files) :
              /\ after[Len(before) + j].name = r.files[j].name
              /\ after[Len(before) + j].url = r.files[j].data
        /\ \A j \in 1..Len(r.atts) : after[Len(before) + j] = r.atts[j]

\* C18: no attachment of a batch is in a draft before every file of the batch is
\* read, and the step that reads the last file appends one attachment per file,
\* in the order of the files, after the attachments already in the draft.
C18_BatchMergedWhenComplete ==
    /\ [][\A k \in 1..Len(drafts.reads) : BatchEnds(k) => BatchMergedWhole(k)]_vars
    /\ [](\A k \in 1..Len(drafts.reads) :
             AttachmentIdsOf(drafts.reads[k].atts)
             \cap (AttachmentIdsOf(drafts.newAttachments)
                   \cup AttachmentIdsOf(drafts.editAttachments)
                   \cup AttachmentIdsOf(drafts.timeline.attachments)
                   \cup AttachmentIdsOf(drafts.timeline.editAttachments)
                   \cup KeptAttachmentIds(ideas)) = {})

\* a batch of two files has been merged after the stored attachment of the update
\* being edited
C18_Witness ==
    /\ drafts.timeline.editingId = "a1"
    /\ Len(drafts.timeline.editAttachments) = 3
    /\ drafts.timeline.editAttachments[1] = StoredAttachments[2]
    /\ drafts.timeline.editAttachments[2].name = "b.txt"
    /\ drafts.timeline.editAttachments[3].name = "a.png"
    /\ drafts.reads = <<>>

\* the attachments of idea i change in this step
IdeaAttachmentsChange(i, j) ==
    ideas[i].id = ideas'[j].id /\ ideas'[j].attachments # ideas[i].attachments

\* the attachments of update u of idea i change in this step
UpdateAttachmentsChange(i, j, u, v) ==
    /\ ideas[i].id = ideas'[j].id
    /\ ideas[i].updates[u].id = ideas'[j].updates[v].id
    /\ ideas'[j].updates[v].attachments # ideas[i].updates[u].attachments

\* C19: the attachments of a stored idea change only when Save is pressed in its
\* edit, and become the edit draft; those of a stored update change only when Save
\* is pressed in its edit form, and become that draft. Removing an attachment
\* from a draft and cancelling an edit leave the stored attachments as they were.
C19_DraftRemovalNotStored ==
    [][/\ \A i \in 1..Len(ideas), j \in 1..Len(ideas') :
            /\ IdeaAttachmentsChange(i, j) =>
                  /\ ModalShown /\ isEditing /\ selectedIdea[1].id = ideas[i].id
                  /\ ~isEditing'
                  /\ ideas'[j].attachments = drafts.editAttachments
            /\ \A u \in 1..Len(ideas[i].updates) : \A v \in 1..Len(ideas'[j].updates) :
                  UpdateAttachmentsChange(i, j, u, v) =>
                     /\ TimelineShown /\ selectedIdea[1].id = ideas[i].id
                     /\ drafts.timeline.editingId = ideas[i].updates[u].id
                     /\ drafts'.timeline.editingId = Null
                     /\ ideas'[j].updates[v].attachments = drafts.timeline.editAttachments
       /\ storedIdeas' # storedIdeas => storedIdeas' = StringifyIdeas(ideas')
      ]_vars

\* the idea's edit draft has lost the attachment the stored idea still has
C19_Witness ==
    /\ ModalShown /\ isEditing
    /\ drafts.editAttachments = <<>>
    /\ selectedIdea[1].attachments = <<StoredAttachments[1]>>
    /\ ideas[Len(ideas)].attachments = <<StoredAttachments[1]>>
    /\ storedIdeas = StringifyIdeas(ideas)

\* an idea, a folder, or an update of an idea that stays, is gone after this step
IdeaRemoved == ~(IdsOf(ideas) \subseteq IdsOf(ideas'))

FolderRemoved == ~(IdsOf(folders) \subseteq IdsOf(folders'))

UpdateRemoved ==
    \E i \in 1..Len(ideas), j \in 1..Len(ideas') :
       /\ ideas[i].id = ideas'[j].id
       /\ ~(IdsOf(ideas[i].updates) \subseteq IdsOf(ideas'[j].updates))

\* C20: a delete that the user declines leaves ideas, folders and the active
\* selector as they were, and an idea, a folder or an update only goes away in
\* the step of the delete handler whose confirm() returned true.
C20_DeleteAfterConfirmation ==
    [][/\ UNCHANGED <<ideas, folders, activeFolderId>>
          \/ ~(\/ \E f \in IdsOf(folders) : handleDeleteFolder(f, FALSE)
               \/ \E k \in 1..Len(ShownUpdates) : handleDeleteUpdate(k, FALSE)
               \/ handleDeleteIdea(FALSE))
       /\ \/ folders' = folders
          \/ FolderRemoved => \E f \in IdsOf(folders) : handleDeleteFolder(f, TRUE)
       /\ \/ ideas' = ideas
          \/ /\ IdeaRemoved => handleDeleteIdea(TRUE)
             /\ UpdateRemoved =>
                   \E k \in 1..Len(ShownUpdates) : handleDeleteUpdate(k, TRUE)
      ]_vars

\* the three confirmations can be asked: an idea with an update is open in the
\* modal and a folder exists
C20_Witness ==
    /\ ModalShown /\ ~isEditing
    /\ Len(ShownUpdates) > 0
    /\ folders # <<>>
    /\ selectedIdea[1].id \in IdsOf(ideas)

\* an operation is called with an id that no record of the store has
CallWithoutTarget ==
    \/ \E u \in CallIdeas : u.id \notin IdsOf(ideas) /\ onUpdateIdea(u)
    \/ \E id \in CallIdeaIds : id \notin IdsOf(ideas) /\ onDelete(id)
    \/ \E u \in CallUpdates : u.id \notin IdsOf(ShownUpdates) /\ onEditUpdate(u)
    \/ \E id \in CallUpdateIds : id \notin IdsOf(ShownUpdates) /\ onDeleteUpdate(id, TRUE)
    \/ \E f \in CallFolderIds : f \notin IdsOf(folders) /\ handleDeleteFolder(f, TRUE)

\* C21: updateIdea, deleteIdea, editUpdate, deleteUpdate and deleteFolder called
\* with an id that is not in the store leave every idea (its lastModified and
\* updates too) and every folder unchanged, and raise no error.
C21_MissingTargetNoOp ==
    [][CallWithoutTarget => UNCHANGED <<ideas, folders>> /\ ~crashed']_vars

\* the stored updates of the idea the modal is open on
StoredUpdates(is) == IdeaById(is, selectedIdea[1].id).updates

\* C22: addUpdate appends the new update at the end of the idea's stored updates,
\* editUpdate replaces the update with the given id in place and keeps its id,
\* timestamp, kind and position and every other update, and the stored
\* timestamps never decrease along the sequence.
C22_UpdatesInInsertionOrder ==
    /\ [][/\ \A c \in UpdateContents :
               (nextId' = nextId + 1 /\ handleAddUpdate(c)) =>
                  /\ Len(StoredUpdates(ideas')) = Len(StoredUpdates(ideas)) + 1
                  /\ SubSeq(StoredUpdates(ideas'), 1, Len(StoredUpdates(ideas)))
                        = StoredUpdates(ideas)
                  /\ StoredUpdates(ideas')[Len(StoredUpdates(ideas'))].id
                        \notin IdsOf(StoredUpdates(ideas))
          /\ \A k \in 1..Len(ShownUpdates), c \in UpdateEdits :
               (ideas' # ideas /\ handleEditUpdate(k, c)) =>
                  /\ Len(StoredUpdates(ideas')) = Len(StoredUpdates(ideas))
                  /\ \A j \in 1..Len(StoredUpdates(ideas)) :
                       IF j = k
                       THEN /\ StoredUpdates(ideas')[j]
                                 = [StoredUpdates(ideas)[j] EXCEPT !.content = c]
                       ELSE StoredUpdates(ideas')[j] = StoredUpdates(ideas)[j]]_vars
    /\ [](\A i \in 1..Len(ideas) :
             \A j \in 1..Len(ideas[i].updates), k \in 1..Len(ideas[i].updates) :
                j < k => ideas[i].updates[j].timestamp <= ideas[i].updates[k].timestamp)

\* an update was edited in place and a later one was added behind the two stored
C22_Witness ==
    /\ ModalShown
    /\ selectedIdea[1].id = "s1"
    /\ IdSeq(StoredUpdates(ideas)) = <<"a1", "a2", "u1">>
    /\ StoredUpdates(ideas)[1].content = <<"x">>
    /\ StoredUpdates(ideas)[1].timestamp = 0
    /\ StoredUpdates(ideas)[3].timestamp = 1

\* idea I after handleAddUpdate at the readings stamp and t, and after
\* handleDeleteUpdate of the id the new update got, at the reading t2
AddedThenDeleted(I, c, stamp, t, t2) ==
    WithoutUpdate(WithAddedUpdate(I, RandomUUID(nextId), c, "update", <<>>, stamp, t),
                  RandomUUID(nextId), t2)

\* the readings of the clock in handleAddUpdate and in the handleDeleteUpdate
\* that follows it
ClockReadings ==
    {r \in DateNow(now) \X DateNow(now) \X (0..MaxTime) :
        r[2] \in DateNow(r[1]) /\ r[3] \in DateNow(r[2])}

\* C23 (amended): adding an update to a stored idea I and deleting it by its id
\* leaves I.updates as it was before the add, in content and order, and
\* I.lastModified is the clock reading of the delete: not before the value it
\* had, and beyond it when the clock has advanced since. The step of a
\* confirmed delete takes just the update with the id out of the stored updates.
C23_AddThenDeleteAmended ==
    /\ [](nextId < MaxId =>
            \A i \in 1..Len(ideas), c \in UpdateContents, r \in ClockReadings :
               LET K == AddedThenDeleted(ideas[i], c, r[1], r[2], r[3])
               IN  /\ K.updates = ideas[i].updates
                   /\ K.lastModified = r[3]
                   /\ K.lastModified >= ideas[i].lastModified
                   /\ r[3] > now => K.lastModified > ideas[i].lastModified)
    /\ [][\A k \in 1..Len(ShownUpdates) :
             (ideas' # ideas /\ handleDeleteUpdate(k, TRUE)) =>
                /\ IdSeq(StoredUpdates(ideas'))
                      = IdSeq(WithoutUpdate(IdeaById(ideas, selectedIdea[1].id),
                                            ShownUpdates[k].id, now').updates)
                /\ \A u \in Records(StoredUpdates(ideas')) :
                      u \in Records(StoredUpdates(ideas))
                /\ IdeaById(ideas', selectedIdea[1].id).lastModified = now']_vars

\* an update was added to the stored idea s1 and deleted again: its updates are
\* the stored ones, and its lastModified is the later reading of the clock
C23_Witness ==
    /\ ModalShown
    /\ selectedIdea[1].id = "s1"
    /\ nextId = 1
    /\ StoredUpdates(ideas) = IdeaWithAttachments.updates
    /\ IdeaById(ideas, "s1").lastModified = 1
    /\ IdeaById(ideas, "s2") = LooseIdea

\* C23 as stated: after the add and the delete I.lastModified is beyond the
\* value it had before the two operations.
C23_AddThenDeleteAsStated ==
    nextId < MaxId =>
       \A i \in 1..Len(ideas), c \in UpdateContents, r \in ClockReadings :
          LET K == AddedThenDeleted(ideas[i], c, r[1], r[2], r[3])
          IN  /\ K.updates = ideas[i].updates
              /\ K.lastModified > ideas[i].lastModified

\* what reading the fields of an idea gives: a key that is missing reads as
\* undefined
FieldValues(idea) == [idea EXCEPT !.folderId = IF @ = Absent THEN Undefined ELSE @]

SameIdeas(loaded, saved) ==
    /\ Len(loaded) = Len(saved)
    /\ \A k \in 1..Len(saved) :
          /\ FieldValues(loaded[k]) = FieldValues(saved[k])
          /\ saved[k].folderId = Absent => loaded[k].folderId = Absent

Reloaded == pending = <<>> /\ ~crashed /\ pending' = <<"saveIdeas", "saveFolders", "render">>

WithoutPosition(seq, p) ==
    [k \in 1..(Len(seq) - 1) |-> IF k < p THEN seq[k] ELSE seq[k + 1]]

\* C25: deleteIdea(id) of a stored idea removes the idea with that id and no
\* other: the other ideas are as they were and in the order they had, and the
\* folders are as they were, the folder of the deleted idea included.
C25_DeleteIdeaFrame ==
    [][\A id \in CallIdeaIds :
          (id \in IdsOf(ideas) /\ onDelete(id)) =>
             /\ \E p \in 1..Len(ideas) :
                   ideas[p].id = id /\ ideas' = WithoutPosition(ideas, p)
             /\ id \notin IdsOf(ideas')
             /\ folders' = folders]_vars

\* the only idea of folder sf1 was deleted from between two others, and the
\* folder exists
C25_Witness ==
    /\ IdSeq(ideas) = <<"s2", "s3">>
    /\ IdsOf(folders) = {"sf1"}
    /\ \A k \in 1..Len(ideas) : ~HasFolder(ideas[k])

\* the mount effect found an array under each key and the render of what it
\* read has not happened yet
LoadingArrays ==
    /\ pending # <<>>
    /\ queued.ideas.tag = "array"
    /\ queued.folders.tag = "array"

\* C26: from mount until the loaded collections are rendered, localStorage holds
\* under each key what the mount effect found there.
C26_StartupKeepsStorage ==
    LoadingArrays => storedIdeas = queued.ideas /\ storedFolders = queued.folders

\* C27: while the modal is open, the idea it shows and writes back is the stored
\* idea with the same id.
C27_ModalIdeaIsStoredIdea ==
    ModalShown =>
        /\ selectedIdea[1].id \in IdsOf(ideas)
        /\ selectedIdea[1] = IdeaById(ideas, selectedIdea[1].id)

\* C28: edit mode is entered on the values of the idea, whatever an edit that
\* was cancelled had typed or removed: saving right after stores the title, the
\* content and the attachments the idea had.
C28_CancelDiscardsDraft ==
    [][(ModalShown /\ ~isEditing /\ isEditing') =>
          /\ editTitle' = selectedIdea'[1].title
          /\ editContent' = selectedIdea'[1].content
          /\ drafts'.editAttachments = selectedIdea'[1].attachments]_vars

\* an idea is created in this step
IdeaCreated == nextId' = nextId + 1 /\ Len(ideas') = Len(ideas) + 1

\* C29: the active selector is `all`, `uncategorized` or the id of a folder of
\* the collection; deleting the active folder sets it to `all` and deleting
\* another folder leaves it; an idea created under it has no folderId or the id
\* of a folder of the collection (the active one).
C29_ActiveFolderValid ==
    /\ [](activeFolderId \in {All, Uncategorized} \cup IdsOf(folders))
    /\ [][\A f \in IdsOf(folders) :
            (folders' # folders /\ handleDeleteFolder(f, TRUE)) =>
                activeFolderId' = IF activeFolderId = f THEN All ELSE activeFolderId]_vars
    /\ [][IdeaCreated =>
            /\ ideas'[1].id \notin IdsOf(ideas)
            /\ ~HasFolder(ideas'[1]) \/ ideas'[1].folderId \in IdsOf(folders')
            /\ ideas'[1].folderId = FolderIdFor(activeFolderId)]_vars

\* an idea was created under the selector of a folder, and that folder is still
\* selected
C29_Witness ==
    /\ pending = <<>> /\ ~crashed
    /\ activeFolderId \in IdsOf(folders)
    /\ Len(ideas) > 0
    /\ \E k \in 1..Len(UUIDs) : ideas[1].id = UUIDs[k]
    /\ ideas[1].folderId = activeFolderId

\* read k reads a file in this step
FileRead(k) ==
    /\ k \in 1..Len(drafts.reads)
    /\ drafts'.fileIds = drafts.fileIds + 1
    /\ FileLoaded(k)

\* the reads other than k are in flight as before, with the files they have read
OthersInFlight(k, ended) ==
    IF ended
    THEN drafts'.reads = ReadsWithout(drafts.reads, k)
    ELSE /\ Len(drafts'.reads) = Len(drafts.reads)
         /\ \A j \in 1..Len(drafts.reads) : j # k => drafts'.reads[j] = drafts.reads[j]

\* C30: with several batches in flight for a draft, the step that completes one
\* keeps every attachment the draft holds, those merged by batches completed
\* before included, and appends the batch in the order of its files; it leaves
\* the other batches in flight and the other drafts as they are, so the draft
\* holds all of them once each has completed, in whatever order they complete.
C30_ConcurrentBatchesKeepAll ==
    [][\A k \in 1..Len(drafts.reads) :
          FileRead(k) =>
             LET r == drafts.reads[k]
                 ended == Len(r.atts) + 1 = Len(r.files)
                 before == DraftOf(drafts, r.target)
                 after == DraftOf(drafts', r.target)
             IN  /\ OthersInFlight(k, ended)
                 /\ \A t \in DraftTargets \ {r.target} :
                       DraftOf(drafts', t) = DraftOf(drafts, t)
                 /\ drafts'.editAttachments = drafts.editAttachments
                 /\ IF ended
                    THEN /\ Len(after) = Len(before) + Len(r.files)
                         /\ \A j \in 1..Len(before) : after[j] = before[j]
                         /\ \A j \in 1..Len(r.files) :
                               after[Len(before) + j].name = r.files[j].name
                    ELSE after = before]_vars

\* two batches of one file each were in flight for the edit form of update a1;
\* both have completed, a.png first, and the draft holds the stored attachment
\* and both files
C30_Witness ==
    /\ drafts.timeline.editingId = "a1"
    /\ Len(drafts.timeline.editAttachments) = 3
    /\ drafts.timeline.editAttachments[1] = StoredAttachments[2]
    /\ drafts.timeline.editAttachments[2] = AttachmentOf(FileA, 0)
    /\ drafts.timeline.editAttachments[3] = AttachmentOf(FileB, 1)
    /\ drafts.reads = <<>>
    /\ drafts.staleIds = {}

====
